---- MODULE Spec2Model ----
(***************************************************************************)
(* A model of llm-cli: the session state (src/config.rs), the read-eval    *)
(* loop with its command handlers (src/cli/repl.rs) and the response       *)
(* classification of the four provider clients (src/llm/*.rs).             *)
(*                                                                         *)
(* Representation.                                                         *)
(*  - A Rust string is a sequence of tokens.  The token " " is one space;  *)
(*    every other token is a run of non-blank characters.  A leading '!'   *)
(*    or '/' of a line is a token of its own, so that starts_with and      *)
(*    input[1..] are Head and Tail.                                        *)
(*  - Option<T> is a sequence of length at most one: None is <<>>,         *)
(*    Some(v) is <<v>>.                                                    *)
(*  - An f32 is held in tenths (0.7 is 7); NaN is a reserved value on      *)
(*    which every comparison is false.                                     *)
(*  - Result<T> is a record [ok, val, kind, detail].                       *)
(*                                                                         *)
(* Specifications.                                                         *)
(*  - Spec is a session: Config::load, then the turns of run_interactive.  *)
(*    The user of one session types the lines of one vocabulary (dispatch, *)
(*    providers or parameters); the vocabularies overlap where a property  *)
(*    needs the commands of two of them together.                          *)
(*  - SpecGen takes the clients on their own: generate and list_models of  *)
(*    each client applied to one outcome of the HTTP exchange, drawn from  *)
(*    a bounded set of statuses, bodies and body lengths; /model going on  *)
(*    from a listing; and generate called with each key set or unset.      *)
(***************************************************************************)
EXTENDS Integers, Sequences, FiniteSets, TLC

VARIABLES
  config,    \* the Config record owned by run_interactive
  surface,   \* which part of the command surface the user of this session types
  pc,        \* where run_interactive is: ReadingLine (in rl.readline), AwaitingResponse
             \* (at an .await of the HTTP client), ReadingStdin (in read_line of
             \* select_model), Rendering (the handler is back in the loop), Terminated
  line,      \* the line returned by the last readline (raw, untrimmed)
  frame,     \* the suspended handler: which one, its argument, its progress
  request,   \* Option: the last network request issued while handling `line`
  trace,     \* what handling `line` has done so far, in program order
  gen        \* the provider-client harness: one response and its classification

vars == <<config, surface, pc, line, frame, request, trace, gen>>

-----------------------------------------------------------------------------
(* Bounds of the model *)

\* longest model listing a provider returns
MaxListing == 2

\* how many answers select_model reads from stdin before the model stops following it
MaxStdinReads == 2

-----------------------------------------------------------------------------
(* Option and Result *)

None == <<>>
Some(v) == <<v>>
IsSome(o) == o # <<>>
IsNone(o) == o = <<>>
Unwrap(o) == o[1]

Ok(v) == [ok |-> TRUE, val |-> v, kind |-> "none", detail |-> <<>>]
Err(k, d) == [ok |-> FALSE, val |-> <<>>, kind |-> k, detail |-> d]

-----------------------------------------------------------------------------
(* Strings *)

SP == " "

RECURSIVE trim_start(_)
trim_start(s) ==
  IF s # <<>> /\ Head(s) = SP THEN trim_start(Tail(s)) ELSE s

RECURSIVE trim_end(_)
trim_end(s) ==
  IF s # <<>> /\ s[Len(s)] = SP THEN trim_end(SubSeq(s, 1, Len(s) - 1)) ELSE s

\* str::trim
trim(s) == trim_end(trim_start(s))

\* str::starts_with(char)
starts_with(s, c) == s # <<>> /\ Head(s) = c

\* index of the first space of s, 0 when there is none
RECURSIVE find_space(_, _)
find_space(s, i) ==
  IF i > Len(s) THEN 0 ELSE IF s[i] = SP THEN i ELSE find_space(s, i + 1)

\* str::splitn(2, ' ') : one or two parts
splitn2(s) ==
  LET i == find_space(s, 1)
  IN IF i = 0 THEN <<s>> ELSE <<SubSeq(s, 1, i - 1), SubSeq(s, i + 1, Len(s))>>

\* str::split_whitespace : the words of s
split_whitespace(s) == SelectSeq(s, LAMBDA t : t # SP)

\* str::to_lowercase / eq_ignore_ascii_case on the words the inputs use
to_lowercase(t) ==
  CASE t = "OLLAMA" -> "ollama"
    [] t = "Gemini" -> "gemini"
    [] t = "TEMP"   -> "temp"
    [] t = "RESET"  -> "reset"
    [] OTHER        -> t

-----------------------------------------------------------------------------
(* Numbers *)

\* f32 NaN: outside the number line of the tenths
NaN == 0 - 1000000

\* f32 comparison: false on NaN
f32_le(a, b) == a # NaN /\ b # NaN /\ a <= b

\* a variant of in_unit_range without the upper end
in_unit_range_lower_only(v) == f32_le(0, v)

\* (0.0..=1.0).contains(&v)
in_unit_range(v) == f32_le(0, v) /\ f32_le(v, 10)

\* str::parse::<f32>: Some(tenths) or None
parse_f32(t) ==
  CASE t = "0"   -> Some(0)
    [] t = "0.5" -> Some(5)
    [] t = "1"   -> Some(10)
    [] t = "1.5" -> Some(15)
    [] t = "-1"  -> Some(0 - 10)
    [] t = "NaN" -> Some(NaN)
    [] OTHER     -> None

\* str::parse of an unsigned integer: Some(n) or None (a sign '-', a fraction
\* or a letter fails)
parse_unsigned(t) ==
  CASE t = "0" -> Some(0)
    [] t = "1" -> Some(1)
    [] t = "2" -> Some(2)
    [] t = "3" -> Some(3)
    [] OTHER   -> None

\* str::parse::<u32> of one word
parse_u32(t) == parse_unsigned(t)

\* str::parse::<usize> of a string: one word that is a number
parse_usize(s) == IF Len(s) = 1 THEN parse_unsigned(s[1]) ELSE None

-----------------------------------------------------------------------------
(* Session state: src/config.rs *)

LlmProvider == {"Ollama", "Gemini", "Groq", "HuggingFace"}

\* impl Default for Config
ConfigDefault ==
  [ active_provider           |-> "Ollama",
    ollama_base_url           |-> <<"http://localhost:11434">>,
    default_ollama_model      |-> <<"llama3">>,
    gemini_api_key            |-> None,
    default_gemini_model      |-> <<"gemini-1.5-pro-latest">>,
    gemini_temperature        |-> Some(7),
    gemini_top_p              |-> None,
    gemini_max_tokens         |-> Some(2048),
    groq_api_key              |-> None,
    default_groq_model        |-> <<"llama3-8b-8192">>,
    groq_api_base_url         |-> <<"https://api.groq.com/openai/v1">>,
    huggingface_api_key       |-> None,
    default_huggingface_model |-> <<"meta-llama/Llama-2-7b-chat-hf">> ]

\* the environment Config::load reads: each key variable unset or set
EnvVars == {"GEMINI_API_KEY", "GROQ_API_KEY", "HUGGINGFACE_API_KEY"}
Environments == [EnvVars -> {None, Some(<<"secret">>)}]

\* Config::load: the defaults overlaid with the three environment variables
ConfigLoad(env) ==
  [ConfigDefault EXCEPT !.gemini_api_key      = env["GEMINI_API_KEY"],
                        !.groq_api_key        = env["GROQ_API_KEY"],
                        !.huggingface_api_key = env["HUGGINGFACE_API_KEY"]]

\* LlmProvider::get_provider_model_name: the field holding a provider's model
get_provider_model_name(p) ==
  CASE p = "Ollama"      -> "default_ollama_model"
    [] p = "Gemini"      -> "default_gemini_model"
    [] p = "Groq"        -> "default_groq_model"
    [] p = "HuggingFace" -> "default_huggingface_model"

\* the field holding a provider's API key (Ollama has none)
api_key_field(p) ==
  CASE p = "Gemini"      -> "gemini_api_key"
    [] p = "Groq"        -> "groq_api_key"
    [] p = "HuggingFace" -> "huggingface_api_key"

\* Config::get_active_model_name
get_active_model_name(cfg) ==
  CASE cfg.active_provider = "Ollama"      -> cfg.default_ollama_model
    [] cfg.active_provider = "Gemini"      -> cfg.default_gemini_model
    [] cfg.active_provider = "Groq"        -> cfg.default_groq_model
    [] cfg.active_provider = "HuggingFace" -> cfg.default_huggingface_model

\* a variant of set_provider_model that writes the model of Ollama whatever
\* the provider is
set_provider_model_ollama(cfg, p, model) ==
  [cfg EXCEPT !.default_ollama_model = model]

\* Config::set_provider_model
set_provider_model(cfg, p, model) ==
  CASE p = "Ollama"      -> [cfg EXCEPT !.default_ollama_model = model]
    [] p = "Gemini"      -> [cfg EXCEPT !.default_gemini_model = model]
    [] p = "Groq"        -> [cfg EXCEPT !.default_groq_model = model]
    [] p = "HuggingFace" -> [cfg EXCEPT !.default_huggingface_model = model]

-----------------------------------------------------------------------------
(* Events of the trace.  The "---" separator lines are not recorded. *)

Out(m) == <<"out", m>>                    \* println!
Out2(m, a) == <<"out", m, a>>             \* println! of a message with one argument
ErrOut(m) == <<"err", m>>                 \* eprintln!
ErrOut2(m, a) == <<"err", m, a>>          \* eprintln! of a message with one argument
Log(level, m) == <<"log", level, m>>      \* tracing warn!/error!
HistoryEv == <<"history">>                \* rl.add_history_entry(line)
DispatchEv(k) == <<"dispatch", k>>        \* the branch of the loop taken
RequestEv(p, op) == <<"request", p, op>>  \* a request handed to the HTTP client
StdinEv == <<"stdin">>                    \* io::stdin().read_line

\* what a handler that ran to its end hands back: the Config and what it printed
Ran(cfg, ev) == [cfg |-> cfg, ev |-> ev]

-----------------------------------------------------------------------------
(* Handlers that only read or write the Config: src/cli/repl.rs *)

\* a variant of use_hosted that switches without looking at the key
use_hosted_unchecked(cfg, p, key_msg, ok_msg) ==
  Ran([cfg EXCEPT !.active_provider = p], <<Out(ok_msg)>>)

\* a variant of use_hosted that puts the provider's model back to the built-in
\* one when it switches
use_hosted_resetting(cfg, p, key_msg, ok_msg) ==
  IF IsNone(cfg[api_key_field(p)])
  THEN Ran(cfg, <<Out(key_msg)>>)
  ELSE Ran([cfg EXCEPT !.active_provider = p,
                       ![get_provider_model_name(p)] = ConfigDefault[get_provider_model_name(p)]],
           <<Out(ok_msg)>>)

\* one hosted arm of handle_use_command
use_hosted(cfg, p, key_msg, ok_msg) ==
  IF IsNone(cfg[api_key_field(p)])
  THEN Ran(cfg, <<Out(key_msg)>>)
  ELSE Ran([cfg EXCEPT !.active_provider = p], <<Out(ok_msg)>>)

handle_use_command(cfg, args) ==
  IF Len(args) # 1
  THEN Ran(cfg, <<Out("Usage: /use <provider>")>>)
  ELSE LET name == to_lowercase(args[1])
       IN CASE name = "ollama" ->
                 Ran([cfg EXCEPT !.active_provider = "Ollama"], <<Out("Switched to Ollama")>>)
            [] name = "gemini" ->
                 use_hosted(cfg, "Gemini", "Error: GEMINI_API_KEY not set.", "Switched to Gemini")
            [] name = "groq" ->
                 use_hosted(cfg, "Groq", "Error: GROQ_API_KEY not set.", "Switched to Groq")
            [] name = "huggingface" ->
                 use_hosted(cfg, "HuggingFace", "Error: HUGGINGFACE_API_KEY not set.",
                            "Switched to Hugging Face")
            [] OTHER -> Ran(cfg, <<Out("Unknown provider")>>)

eq_ignore_ascii_case(a, b) == to_lowercase(a) = to_lowercase(b)

\* a variant of gemini_set_f32 that clears the field when it rejects the value
gemini_set_f32_clearing(cfg, field, vs, label) ==
  IF eq_ignore_ascii_case(vs, "reset")
  THEN Ran([cfg EXCEPT ![field] = ConfigDefault[field]], <<Out2("Reset", label)>>)
  ELSE LET p == parse_f32(vs)
       IN IF IsSome(p)
          THEN IF in_unit_range(Unwrap(p))
               THEN Ran([cfg EXCEPT ![field] = Some(Unwrap(p))], <<Out2("Set", label)>>)
               ELSE Ran([cfg EXCEPT ![field] = None], <<Out2("Invalid range", label)>>)
          ELSE Ran([cfg EXCEPT ![field] = None], <<Out2("Invalid value", label)>>)

\* a variant of gemini_set_f32 whose reset leaves the parameter absent
gemini_set_f32_reset_absent(cfg, field, vs, label) ==
  IF eq_ignore_ascii_case(vs, "reset")
  THEN Ran([cfg EXCEPT ![field] = None], <<Out2("Reset", label)>>)
  ELSE LET p == parse_f32(vs)
       IN IF IsSome(p)
          THEN IF in_unit_range(Unwrap(p))
               THEN Ran([cfg EXCEPT ![field] = Some(Unwrap(p))], <<Out2("Set", label)>>)
               ELSE Ran(cfg, <<Out2("Invalid range", label)>>)
          ELSE Ran(cfg, <<Out2("Invalid value", label)>>)

\* the ("temp", Some(&vs)) and ("top_p", Some(&vs)) arms of handle_gemini_config_command
gemini_set_f32(cfg, field, vs, label) ==
  IF eq_ignore_ascii_case(vs, "reset")
  THEN Ran([cfg EXCEPT ![field] = ConfigDefault[field]], <<Out2("Reset", label)>>)
  ELSE LET p == parse_f32(vs)
       IN IF IsSome(p)
          THEN IF in_unit_range(Unwrap(p))
               THEN Ran([cfg EXCEPT ![field] = Some(Unwrap(p))], <<Out2("Set", label)>>)
               ELSE Ran(cfg, <<Out2("Invalid range", label)>>)
          ELSE Ran(cfg, <<Out2("Invalid value", label)>>)

\* the ("max_tokens", Some(&vs)) arm
gemini_set_max_tokens(cfg, vs) ==
  IF eq_ignore_ascii_case(vs, "reset")
  THEN Ran([cfg EXCEPT !.gemini_max_tokens = ConfigDefault.gemini_max_tokens],
           <<Out2("Reset", "max_tokens")>>)
  ELSE LET p == parse_u32(vs)
       IN IF IsSome(p)
          THEN IF Unwrap(p) > 0
               THEN Ran([cfg EXCEPT !.gemini_max_tokens = Some(Unwrap(p))],
                        <<Out2("Set", "max_tokens")>>)
               ELSE Ran(cfg, <<Out2("Invalid range", "max_tokens")>>)
          ELSE Ran(cfg, <<Out2("Invalid value", "max_tokens")>>)

\* a variant of gemini_reset_all that leaves top_p as it is
gemini_reset_all_partial(cfg) ==
  Ran([cfg EXCEPT !.gemini_temperature = ConfigDefault.gemini_temperature,
                  !.gemini_max_tokens  = ConfigDefault.gemini_max_tokens],
      <<Out("Reset all Gemini parameters")>>)

\* a variant of gemini_reset_all that calls Config::reset_to_default
gemini_reset_all_whole_config(cfg) ==
  Ran(ConfigDefault, <<Out("Reset all Gemini parameters")>>)

\* the ("reset", None) arm
gemini_reset_all(cfg) ==
  Ran([cfg EXCEPT !.gemini_temperature = ConfigDefault.gemini_temperature,
                  !.gemini_top_p       = ConfigDefault.gemini_top_p,
                  !.gemini_max_tokens  = ConfigDefault.gemini_max_tokens],
      <<Out("Reset all Gemini parameters")>>)

\* the while loop of handle_gemini_config_command; i counts from 1
RECURSIVE gemini_config_loop(_, _, _, _)
gemini_config_loop(cfg, args, i, ev) ==
  IF i > Len(args)
  THEN Ran(cfg, ev)
  ELSE LET param == to_lowercase(args[i])
           value == IF i + 1 <= Len(args) THEN Some(args[i + 1]) ELSE None
       IN CASE param = "temp" /\ IsSome(value) ->
                 LET r == gemini_set_f32(cfg, "gemini_temperature", Unwrap(value), "temp")
                 IN gemini_config_loop(r.cfg, args, i + 2, ev \o r.ev)
            [] param = "top_p" /\ IsSome(value) ->
                 LET r == gemini_set_f32(cfg, "gemini_top_p", Unwrap(value), "top_p")
                 IN gemini_config_loop(r.cfg, args, i + 2, ev \o r.ev)
            [] param = "max_tokens" /\ IsSome(value) ->
                 LET r == gemini_set_max_tokens(cfg, Unwrap(value))
                 IN gemini_config_loop(r.cfg, args, i + 2, ev \o r.ev)
            [] param = "reset" /\ IsNone(value) ->
                 LET r == gemini_reset_all(cfg)
                 IN gemini_config_loop(r.cfg, args, i + 1, ev \o r.ev)
            [] OTHER ->
                 gemini_config_loop(cfg, args, i + 1, ev \o <<Out("Unknown parameter or missing value")>>)

handle_gemini_config_command(cfg, args) ==
  IF args = <<>>
  THEN Ran(cfg, <<Out("Current Gemini Configuration")>>)
  ELSE gemini_config_loop(cfg, args, 1, <<>>)

handle_groq_config_command(cfg, args) ==
  IF args = <<>> THEN Ran(cfg, <<Out("Current Groq Configuration")>>) ELSE Ran(cfg, <<>>)

handle_huggingface_config_command(cfg, args) ==
  Ran(cfg, <<Out("Hugging Face configuration is not implemented yet.")>>)

handle_config_command(cfg) == Ran(cfg, <<Out("Current Configuration")>>)

print_help(cfg) == Ran(cfg, <<Out("Available Commands")>>)

-----------------------------------------------------------------------------
(* The HTTP exchange.  A request either fails in transport (send() is Err)  *)
(* or brings back a status and a body; a body is None when it is not JSON   *)
(* at all, and otherwise a JSON object whose absent (or null) members are   *)
(* None.                                                                    *)

\* the precision of {:.100}, the only limit the clients put on a body they
\* report (the connection checks' log lines)
BodyPrefixLen == 100

\* a response whose body is n bytes long
RespOfLen(status, body, n) == [arrived |-> TRUE, status |-> status, body |-> body, len |-> n]

NetFail == [arrived |-> FALSE, status |-> "000", body |-> None, len |-> 0]
Resp(status, body) == RespOfLen(status, body, 2)

\* StatusCode::is_success
is_success(status) == status \in {"200", "201", "204"}

seq_all(s, P(_)) == \A i \in 1..Len(s) : P(s[i])
seq_map(s, F(_)) == IF s = <<>> THEN <<>> ELSE [i \in 1..Len(s) |-> F(s[i])]
opt_all(o, P(_)) == IsNone(o) \/ P(Unwrap(o))
opt_map(o, F(_)) == IF IsNone(o) THEN None ELSE Some(F(Unwrap(o)))

\* serde_json::from_slice::<T>(&response_bytes): Some(T), or None when the
\* body is not JSON or lacks a member T requires
from_slice(body, Valid(_), Build(_)) ==
  IF IsSome(body) /\ Valid(Unwrap(body)) THEN Some(Build(Unwrap(body))) ELSE None

\* handle_api_response<T> (the same function in each client), parsed being
\* what from_slice gave: T, or the error that carries the status, the base
\* message and the body ("Body: {}" of body_string: all net.len bytes of it)
handle_api_response(net, parsed) ==
  IF IsSome(parsed)
  THEN Ok(Unwrap(parsed))
  ELSE Err("Parse", <<net.status,
                      IF is_success(net.status)
                      THEN "Failed to parse successful response"
                      ELSE "API request failed",
                      net.len>>)

-----------------------------------------------------------------------------
(* Gemini client: src/llm/gemini.rs *)

\* serde: the members a struct declares without Option must be there
gemini_part_valid(j) == IsSome(j.text)
gemini_content_valid(j) == opt_all(j.parts, LAMBDA ps : seq_all(ps, gemini_part_valid))
gemini_candidate_valid(j) == opt_all(j.content, gemini_content_valid)
gemini_api_error_valid(j) == IsSome(j.code) /\ IsSome(j.message) /\ IsSome(j.status)
gemini_response_valid(j) ==
  /\ opt_all(j.candidates, LAMBDA cs : seq_all(cs, gemini_candidate_valid))
  /\ opt_all(j.error, gemini_api_error_valid)

\* struct Part, ContentResponse, Candidate, PromptFeedback, ApiError, GeminiResponse
\* (the safety ratings and the role, which generate only prints, are left out)
gemini_part(j) == [text |-> Unwrap(j.text)]
gemini_content(j) == [parts |-> opt_map(j.parts, LAMBDA ps : seq_map(ps, gemini_part))]
gemini_candidate(j) ==
  [content |-> opt_map(j.content, gemini_content), finish_reason |-> j.finishReason]
gemini_prompt_feedback(j) == [block_reason |-> j.blockReason]
gemini_api_error(j) ==
  [code |-> Unwrap(j.code), message |-> Unwrap(j.message), status |-> Unwrap(j.status)]
gemini_response(j) ==
  [candidates      |-> opt_map(j.candidates, LAMBDA cs : seq_map(cs, gemini_candidate)),
   prompt_feedback |-> opt_map(j.promptFeedback, gemini_prompt_feedback),
   error           |-> opt_map(j.error, gemini_api_error)]

\* a variant of gemini_extract that takes only STOP for a normal stop
gemini_extract_stop_only(first_candidate) ==
  LET finish_reason == IF IsSome(first_candidate.finish_reason)
                       THEN Unwrap(first_candidate.finish_reason) ELSE "UNKNOWN"
  IN IF finish_reason # "STOP"
     THEN Err("FinishedEarly", <<finish_reason>>)
     ELSE IF IsNone(first_candidate.content)
     THEN Err("ContentMissing", <<>>)
     ELSE IF IsNone(Unwrap(first_candidate.content).parts)
     THEN Err("PartsMissing", <<>>)
     ELSE IF Unwrap(Unwrap(first_candidate.content).parts) = <<>>
     THEN Err("PartsEmpty", <<>>)
     ELSE Ok(Head(Unwrap(Unwrap(first_candidate.content).parts)).text)

\* generate, lines 185-217: from the first candidate to the text
gemini_extract(first_candidate) ==
  LET finish_reason == IF IsSome(first_candidate.finish_reason)
                       THEN Unwrap(first_candidate.finish_reason) ELSE "UNKNOWN"
  IN IF finish_reason # "STOP" /\ finish_reason # "UNKNOWN"
     THEN Err("FinishedEarly", <<finish_reason>>)
     ELSE IF IsNone(first_candidate.content)
     THEN Err("ContentMissing", <<>>)
     ELSE IF IsNone(Unwrap(first_candidate.content).parts)
     THEN Err("PartsMissing", <<>>)
     ELSE IF Unwrap(Unwrap(first_candidate.content).parts) = <<>>
     THEN Err("PartsEmpty", <<>>)
     ELSE Ok(Head(Unwrap(Unwrap(first_candidate.content).parts)).text)

\* a variant of gemini_classify that looks at the blocked prompt before the error
gemini_classify_blocked_first(r) ==
  IF IsSome(r.prompt_feedback) /\ IsSome(Unwrap(r.prompt_feedback).block_reason)
  THEN Err("PromptBlocked", <<Unwrap(Unwrap(r.prompt_feedback).block_reason)>>)
  ELSE IF IsSome(r.error)
  THEN Err("ApiError", <<Unwrap(r.error).code, Unwrap(r.error).status, Unwrap(r.error).message>>)
  ELSE IF IsNone(r.candidates) \/ Unwrap(r.candidates) = <<>>
  THEN Err("NoCandidates", <<>>)
  ELSE gemini_extract(Head(Unwrap(r.candidates)))

\* generate, lines 160-183: the checks on the parsed GeminiResponse
gemini_classify(r) ==
  IF IsSome(r.error)
  THEN Err("ApiError", <<Unwrap(r.error).code, Unwrap(r.error).status, Unwrap(r.error).message>>)
  ELSE IF IsSome(r.prompt_feedback) /\ IsSome(Unwrap(r.prompt_feedback).block_reason)
  THEN Err("PromptBlocked", <<Unwrap(Unwrap(r.prompt_feedback).block_reason)>>)
  ELSE IF IsNone(r.candidates) \/ Unwrap(r.candidates) = <<>>
  THEN Err("NoCandidates", <<>>)
  ELSE gemini_extract(Head(Unwrap(r.candidates)))

\* generate, from the HTTP exchange on
gemini_generate_response(net) ==
  IF ~net.arrived
  THEN Err("Transport", <<>>)
  ELSE LET parsed == handle_api_response(net, from_slice(net.body, gemini_response_valid, gemini_response))
       IN IF ~parsed.ok THEN parsed ELSE gemini_classify(parsed.val)

-----------------------------------------------------------------------------
(* Shared-schema client: src/llm/openai_compatible.rs, used by src/llm/groq.rs *)

openai_message_valid(j) == IsSome(j.role)
openai_choice_valid(j) ==
  IsSome(j.index) /\ IsSome(j.message) /\ openai_message_valid(Unwrap(j.message))
openai_api_error_valid(j) == IsSome(j.message)
openai_chat_valid(j) ==
  /\ IsSome(j.choices)
  /\ seq_all(Unwrap(j.choices), openai_choice_valid)
  /\ opt_all(j.error, openai_api_error_valid)

\* struct ResponseMessage, ChatChoice, ApiError, ChatCompletionResponse
openai_choice(j) ==
  [index         |-> Unwrap(j.index),
   message       |-> [role |-> Unwrap(Unwrap(j.message).role),
                      content |-> Unwrap(j.message).content],
   finish_reason |-> j.finish_reason]
openai_api_error(j) == [message |-> Unwrap(j.message)]
openai_chat(j) ==
  [choices |-> seq_map(Unwrap(j.choices), openai_choice),
   error   |-> opt_map(j.error, openai_api_error)]

\* generate, lines 161-175
openai_classify(r) ==
  IF IsSome(r.error)
  THEN Err("ApiError", <<Unwrap(r.error).message>>)
  ELSE IF r.choices # <<>> /\ IsSome(Head(r.choices).message.content)
  THEN Ok(Unwrap(Head(r.choices).message.content))
  ELSE Err("NoTextContent", <<>>)

openai_generate_response(net) ==
  IF ~net.arrived
  THEN Err("Transport", <<>>)
  ELSE LET parsed == handle_api_response(net, from_slice(net.body, openai_chat_valid, openai_chat))
       IN IF ~parsed.ok THEN parsed ELSE openai_classify(parsed.val)

-----------------------------------------------------------------------------
(* Ollama client: src/llm/ollama.rs *)

ollama_response_valid(j) ==
  IsSome(j.model) /\ IsSome(j.created_at) /\ IsSome(j.response) /\ IsSome(j.done)

\* struct OllamaResponse
ollama_response(j) ==
  [model |-> Unwrap(j.model), created_at |-> Unwrap(j.created_at),
   response |-> Unwrap(j.response), done |-> Unwrap(j.done)]

ollama_generate_response(net) ==
  IF ~net.arrived
  THEN Err("Transport", <<>>)
  ELSE LET parsed == handle_api_response(net, from_slice(net.body, ollama_response_valid, ollama_response))
       IN IF ~parsed.ok THEN parsed ELSE Ok(parsed.val.response)

-----------------------------------------------------------------------------
(* Hugging Face client: src/llm/huggingface.rs *)

\* struct HuggingFaceResponse: both members are Option, any JSON object parses
huggingface_response_valid(j) == TRUE
huggingface_response(j) == [generated_text |-> j.generated_text, error |-> j.error]

\* generate, lines 83-87
huggingface_classify(r) ==
  IF IsSome(r.error)
  THEN Err("ApiError", <<Unwrap(r.error)>>)
  ELSE IF IsSome(r.generated_text)
  THEN Ok(Unwrap(r.generated_text))
  ELSE Err("NoGeneratedText", <<>>)

huggingface_generate_response(net) ==
  IF ~net.arrived
  THEN Err("Transport", <<>>)
  ELSE LET parsed == handle_api_response(net, from_slice(net.body, huggingface_response_valid, huggingface_response))
       IN IF ~parsed.ok THEN parsed ELSE huggingface_classify(parsed.val)

\* the provider's generate, from the HTTP exchange on
generate_response(p, net) ==
  CASE p = "Ollama"      -> ollama_generate_response(net)
    [] p = "Gemini"      -> gemini_generate_response(net)
    [] p = "Groq"        -> openai_generate_response(net)
    [] p = "HuggingFace" -> huggingface_generate_response(net)

-----------------------------------------------------------------------------
(* Model listings: list_models of the four clients *)

ollama_tag_valid(j) == IsSome(j.name) /\ IsSome(j.modified_at) /\ IsSome(j.size)
ollama_tags_valid(j) == IsSome(j.models) /\ seq_all(Unwrap(j.models), ollama_tag_valid)
\* struct OllamaTagsResponse
ollama_tags(j) == [models |-> seq_map(Unwrap(j.models), LAMBDA t : [name |-> Unwrap(t.name)])]

\* ollama::list_models
ollama_list_response(net) ==
  IF ~net.arrived
  THEN Err("Transport", <<>>)
  ELSE LET parsed == handle_api_response(net, from_slice(net.body, ollama_tags_valid, ollama_tags))
       IN IF ~parsed.ok THEN parsed
          ELSE Ok(seq_map(parsed.val.models, LAMBDA t : t.name))

gemini_model_info_valid(j) == IsSome(j.name)
gemini_list_valid(j) ==
  /\ opt_all(j.models, LAMBDA ms : seq_all(ms, gemini_model_info_valid))
  /\ opt_all(j.error, gemini_api_error_valid)
\* struct GeminiModelInfo, GeminiListModelsResponse
gemini_model_info(j) ==
  [name |-> Unwrap(j.name), supported_generation_methods |-> j.supportedGenerationMethods]
gemini_list(j) ==
  [models |-> opt_map(j.models, LAMBDA ms : seq_map(ms, gemini_model_info)),
   error  |-> opt_map(j.error, gemini_api_error)]

\* str::strip_prefix("models/")
strip_prefix_models(name) ==
  IF starts_with(name, "models/") THEN Some(Tail(name)) ELSE None

\* the filter and filter_map of gemini::list_models, lines 239-242
gemini_chat_model_ids(models) ==
  LET capable == SelectSeq(models, LAMBDA m :
                   "generateContent" \in
                     {Unwrap(m.supported_generation_methods)[i] :
                        i \in 1..Len(IF IsSome(m.supported_generation_methods)
                                     THEN Unwrap(m.supported_generation_methods) ELSE <<>>)})
      stripped == seq_map(capable, LAMBDA m : strip_prefix_models(m.name))
  IN seq_map(SelectSeq(stripped, IsSome), Unwrap)

\* gemini::list_models, from the HTTP exchange on
gemini_list_response(net) ==
  IF ~net.arrived
  THEN Err("Transport", <<>>)
  ELSE LET parsed == handle_api_response(net, from_slice(net.body, gemini_list_valid, gemini_list))
       IN IF ~parsed.ok THEN parsed
          ELSE IF IsSome(parsed.val.error)
          THEN Err("ApiError", <<Unwrap(parsed.val.error).code, Unwrap(parsed.val.error).status,
                                 Unwrap(parsed.val.error).message>>)
          ELSE Ok(gemini_chat_model_ids(IF IsSome(parsed.val.models)
                                        THEN Unwrap(parsed.val.models) ELSE <<>>))

openai_model_info_valid(j) == IsSome(j.id) /\ IsSome(j.object)
openai_list_valid(j) ==
  /\ IsSome(j.object)
  /\ IsSome(j.data)
  /\ seq_all(Unwrap(j.data), openai_model_info_valid)
  /\ opt_all(j.error, openai_api_error_valid)
\* struct ModelInfo, ListModelsResponse
openai_list(j) ==
  [data  |-> seq_map(Unwrap(j.data), LAMBDA m : [id |-> Unwrap(m.id)]),
   error |-> opt_map(j.error, openai_api_error)]

\* openai_compatible::list_models, from the HTTP exchange on
openai_list_response(net) ==
  IF ~net.arrived
  THEN Err("Transport", <<>>)
  ELSE LET parsed == handle_api_response(net, from_slice(net.body, openai_list_valid, openai_list))
       IN IF ~parsed.ok THEN parsed
          ELSE IF IsSome(parsed.val.error)
          THEN Err("ApiError", <<Unwrap(parsed.val.error).message>>)
          ELSE Ok(seq_map(parsed.val.data, LAMBDA m : m.id))

\* the provider's list_models, from the HTTP exchange on (Hugging Face makes none)
list_response(p, net) ==
  CASE p = "Ollama" -> ollama_list_response(net)
    [] p = "Gemini" -> gemini_list_response(net)
    [] p = "Groq"   -> openai_list_response(net)

\* ollama::check_connection and openai_compatible::check_connection: the status alone
status_check_response(net) ==
  IF ~net.arrived
  THEN Err("Transport", <<>>)
  ELSE IF is_success(net.status) THEN Ok(<<>>) ELSE Err("Status", <<net.status>>)

\* the provider's check_connection, from the HTTP exchange on
check_connection_response(p, net) ==
  CASE p = "Ollama"      -> status_check_response(net)
    [] p = "Groq"        -> status_check_response(net)
    [] p = "Gemini"      -> LET r == gemini_list_response(net)
                            IN IF r.ok THEN Ok(<<>>) ELSE r
    [] p = "HuggingFace" -> LET r == huggingface_generate_response(net)
                            IN IF r.ok THEN Ok(<<>>) ELSE r

-----------------------------------------------------------------------------
(* Requests.  endpoint names the URL; auth is the key sent with it; payload *)
(* is the JSON body of a POST; timeout is the per-request timeout, "none"    *)
(* when the request sets none.                                               *)

NoPayload == None

\* ollama::generate, lines 85-101
ollama_generate_request(cfg, model, prompt) ==
  [provider |-> "Ollama", op |-> "generate", method |-> "POST",
   base_url |-> cfg.ollama_base_url, endpoint |-> "/api/generate",
   model |-> IF IsSome(model) THEN Unwrap(model) ELSE cfg.default_ollama_model,
   auth |-> None, timeout |-> "none",
   payload |-> Some([model  |-> IF IsSome(model) THEN Unwrap(model) ELSE cfg.default_ollama_model,
                     prompt |-> prompt, stream |-> FALSE])]

\* gemini::generate, lines 143-152: the generationConfig of the request
gemini_generation_config(cfg) ==
  LET config_set == IsSome(cfg.gemini_temperature) \/ IsSome(cfg.gemini_top_p)
                      \/ IsSome(cfg.gemini_max_tokens)
  IN IF config_set
     THEN Some([temperature     |-> cfg.gemini_temperature,
                topP            |-> cfg.gemini_top_p,
                maxOutputTokens |-> cfg.gemini_max_tokens])
     ELSE None

\* a variant of gemini_request_to_json that writes every member of
\* generationConfig, an absent one as the number 0
gemini_request_to_json_all_members(payload) ==
  IF IsSome(payload.generationConfig)
  THEN LET gc == Unwrap(payload.generationConfig)
       IN [contents |-> payload.contents,
           generationConfig |-> [k \in DOMAIN gc |-> IF IsSome(gc[k]) THEN Unwrap(gc[k]) ELSE 0]]
  ELSE [contents |-> payload.contents]

\* Serialize of struct GeminiRequest and struct GenerationConfig, lines
\* 12-37, as .json(&request_payload) writes them: a member that is None is
\* skipped (skip_serializing_if = "Option::is_none")
gemini_request_to_json(payload) ==
  IF IsSome(payload.generationConfig)
  THEN LET gc == Unwrap(payload.generationConfig)
       IN [contents |-> payload.contents,
           generationConfig |-> [k \in {m \in DOMAIN gc : IsSome(gc[m])} |-> Unwrap(gc[k])]]
  ELSE [contents |-> payload.contents]

\* gemini::generate, lines 137-155
gemini_generate_request(cfg, prompt) ==
  [provider |-> "Gemini", op |-> "generate", method |-> "POST",
   base_url |-> <<"https://generativelanguage.googleapis.com/v1beta">>,
   endpoint |-> ":generateContent", model |-> cfg.default_gemini_model,
   auth |-> cfg.gemini_api_key, timeout |-> "none",
   payload |-> Some([contents |-> <<[parts |-> <<[text |-> prompt]>>]>>,
                     generationConfig |-> gemini_generation_config(cfg)])]

\* a variant of groq_generate_request that sends an earlier turn along
groq_generate_request_with_turns(cfg, prompt) ==
  [provider |-> "Groq", op |-> "generate", method |-> "POST",
   base_url |-> cfg.groq_api_base_url, endpoint |-> "/chat/completions",
   model |-> cfg.default_groq_model,
   auth |-> cfg.groq_api_key, timeout |-> "none",
   payload |-> Some([model |-> cfg.default_groq_model,
                     messages |-> <<[role |-> "user", content |-> <<"hi">>],
                                    [role |-> "assistant", content |-> <<"t1">>],
                                    [role |-> "user", content |-> prompt]>>])]

\* openai_compatible::generate, lines 136-156, as groq::generate calls it
groq_generate_request(cfg, prompt) ==
  [provider |-> "Groq", op |-> "generate", method |-> "POST",
   base_url |-> cfg.groq_api_base_url, endpoint |-> "/chat/completions",
   model |-> cfg.default_groq_model,
   auth |-> cfg.groq_api_key, timeout |-> "none",
   payload |-> Some([model |-> cfg.default_groq_model,
                     messages |-> <<[role |-> "user", content |-> prompt]>>])]

\* huggingface::generate, lines 63-78
huggingface_generate_request(cfg, prompt) ==
  [provider |-> "HuggingFace", op |-> "generate", method |-> "POST",
   base_url |-> <<"https://api-inference.huggingface.co/models">>,
   endpoint |-> "/", model |-> cfg.default_huggingface_model,
   auth |-> cfg.huggingface_api_key, timeout |-> "none",
   payload |-> Some([inputs |-> prompt])]

generate_request(p, cfg, prompt) ==
  CASE p = "Ollama"      -> ollama_generate_request(cfg, None, prompt)
    [] p = "Gemini"      -> gemini_generate_request(cfg, prompt)
    [] p = "Groq"        -> groq_generate_request(cfg, prompt)
    [] p = "HuggingFace" -> huggingface_generate_request(cfg, prompt)

\* the GET of list_models (Hugging Face makes none)
list_request(p, cfg) ==
  CASE p = "Ollama" ->
         [provider |-> "Ollama", op |-> "list_models", method |-> "GET",
          base_url |-> cfg.ollama_base_url, endpoint |-> "/api/tags", model |-> <<>>,
          auth |-> None, timeout |-> "none", payload |-> NoPayload]
    [] p = "Gemini" ->
         [provider |-> "Gemini", op |-> "list_models", method |-> "GET",
          base_url |-> <<"https://generativelanguage.googleapis.com/v1beta">>,
          endpoint |-> "/models", model |-> <<>>,
          auth |-> cfg.gemini_api_key, timeout |-> "none", payload |-> NoPayload]
    [] p = "Groq" ->
         [provider |-> "Groq", op |-> "list_models", method |-> "GET",
          base_url |-> cfg.groq_api_base_url, endpoint |-> "/models", model |-> <<>>,
          auth |-> cfg.groq_api_key, timeout |-> "none", payload |-> NoPayload]

\* the request check_connection makes
check_connection_request(p, cfg) ==
  CASE p = "Ollama" ->
         [provider |-> "Ollama", op |-> "check_connection", method |-> "GET",
          base_url |-> cfg.ollama_base_url, endpoint |-> "", model |-> <<>>,
          auth |-> None, timeout |-> "5s", payload |-> NoPayload]
    [] p = "Groq" ->
         [provider |-> "Groq", op |-> "check_connection", method |-> "GET",
          base_url |-> cfg.groq_api_base_url, endpoint |-> "/models", model |-> <<>>,
          auth |-> cfg.groq_api_key, timeout |-> "10s", payload |-> NoPayload]
    [] p = "Gemini" ->
         [list_request("Gemini", cfg) EXCEPT !.op = "check_connection"]
    [] p = "HuggingFace" ->
         [huggingface_generate_request(cfg, <<"test">>) EXCEPT !.op = "check_connection"]

-----------------------------------------------------------------------------
(* The read-eval loop: src/cli/repl.rs.  A handler runs until it returns or  *)
(* suspends at an .await of the HTTP client or at stdin's read_line; what it *)
(* leaves is a step: the Config, the events, how it ended, where the loop is *)
(* next, the suspended frame and the request it issued, if any.              *)

NoFrame == [handler |-> "none", kind |-> "none", arg |-> <<>>, step |-> 0, models |-> <<>>]
Frame(h, k, arg, step, models) ==
  [handler |-> h, kind |-> k, arg |-> arg, step |-> step, models |-> models]

\* the handler returned Ok(())
Done(cfg, ev) ==
  [cfg |-> cfg, ev |-> ev, ret |-> "Ok", pc |-> "Rendering", frame |-> NoFrame, req |-> None]
\* the handler returned Err(e)
Fail(cfg, ev) ==
  [cfg |-> cfg, ev |-> ev, ret |-> "Err", pc |-> "Rendering", frame |-> NoFrame, req |-> None]
\* the loop goes round without dispatching: `continue`, or the end of an arm
\* of the match on the readline result
Continue(cfg, ev) ==
  [cfg |-> cfg, ev |-> ev, ret |-> "Ok", pc |-> "ReadingLine", frame |-> NoFrame, req |-> None]
\* the handler handed rq to the HTTP client and awaits the outcome
Await(cfg, ev, fr, rq) ==
  [cfg |-> cfg, ev |-> ev \o <<RequestEv(rq.provider, rq.op)>>, ret |-> "Pending",
   pc |-> "AwaitingResponse", frame |-> fr, req |-> Some(rq)]
\* the handler blocks in io::stdin().read_line
Stdin(cfg, ev, fr) ==
  [cfg |-> cfg, ev |-> ev, ret |-> "Pending", pc |-> "ReadingStdin", frame |-> fr, req |-> None]
\* the loop breaks
Break(cfg, ev) ==
  [cfg |-> cfg, ev |-> ev \o <<Out("Exiting interactive session.")>>, ret |-> "Ok",
   pc |-> "Terminated", frame |-> NoFrame, req |-> None]

FromRan(r) == Done(r.cfg, r.ev)

\* a variant of is_exit_command that looks at the first word only
is_exit_command_first_word(input) ==
  \/ (input # <<>> /\ Head(input) \in {"quit", "exit"})
  \/ (Len(input) > 1 /\ Head(input) = "/" /\ input[2] \in {"quit", "exit"})

\* is_exit_command
is_exit_command(input) ==
  input \in {<<"quit">>, <<"exit">>, <<"/", "quit">>, <<"/", "exit">>}

\* what running the child process of a shell escape can come to
ShellOutcomes == {"success", "nonzero_status", "spawn_error"}

\* what the handlers take from the environment within one step: whether
\* flushing stdout works, and how the child process of a shell escape ends
IoChoices == [flush_ok : BOOLEAN, shell : ShellOutcomes]
IoDefault == [flush_ok |-> TRUE, shell |-> "success"]

handle_shell_command(cfg, input, io) ==
  LET command_str == trim(Tail(input))
  IN IF command_str = <<>>
     THEN Done(cfg, <<ErrOut("Usage: !<shell_command>")>>)
     ELSE IF io.shell = "spawn_error"
     THEN Done(cfg, <<Out("Executing"), Log("error", "Failed to execute command"),
                      ErrOut("Error executing command")>>)
     ELSE IF ~io.flush_ok
     THEN Fail(cfg, <<Out("Executing"), Out("child stdout")>>)
     ELSE IF io.shell = "nonzero_status"
     THEN Done(cfg, <<Out("Executing"), Out("child stdout"), ErrOut("child stderr"),
                      ErrOut("Command exited with status")>>)
     ELSE Done(cfg, <<Out("Executing"), Out("child stdout"), ErrOut("child stderr")>>)

\* the key check of gemini::generate / groq::generate / huggingface::generate and
\* of their list_models, made before any request is built
key_missing(p, cfg) == p # "Ollama" /\ IsNone(cfg[api_key_field(p)])

\* a variant of generate_call that builds the request without looking at the key
generate_call_unchecked(p, cfg, prompt) ==
  [result |-> Err("Pending", <<>>), req |-> Some(generate_request(p, cfg, prompt))]

\* generate of the client of provider p, up to the point where it hands its
\* request to the HTTP client: `config.<p>_api_key.as_deref().ok_or_else(..)?`
\* comes first in the three hosted clients
generate_call(p, cfg, prompt) ==
  IF key_missing(p, cfg)
  THEN [result |-> Err("Config", <<"API key not set">>), req |-> None]
  ELSE [result |-> Err("Pending", <<>>), req |-> Some(generate_request(p, cfg, prompt))]

\* handle_llm_prompt, lines 236-265: display of the generation result
show_generation(cfg, ev, result) ==
  IF result.ok
  THEN Done(cfg, ev \o <<Out("response")>>)
  ELSE Done(cfg, ev \o <<Log("error", "Generation error"), ErrOut2("Error", result.kind)>>)

\* handle_llm_prompt, lines 208-233
handle_llm_prompt(cfg, input) ==
  LET p == cfg.active_provider
      ev == <<Out("... generating via")>>
  IN IF key_missing(p, cfg)
     THEN show_generation(cfg, ev, Err("Config", <<"API key not set">>))
     ELSE LET call == generate_call(p, cfg, input)
          IN IF IsNone(call.req)
             THEN show_generation(cfg, ev, call.result)
             ELSE Await(cfg, ev, Frame("llm_prompt", "llm", input, 0, <<>>), Unwrap(call.req))

\* the order in which handle_status_command probes the providers
StatusOrder == <<"Ollama", "Gemini", "Groq", "HuggingFace">>

\* a variant of status_from that starts the probe of the next provider
\* together with the probe it awaits
RECURSIVE status_from_concurrent(_, _, _, _)
status_from_concurrent(cfg, step, ev, io) ==
  IF step > Len(StatusOrder)
  THEN Done(cfg, ev)
  ELSE LET p == StatusOrder[step]
       IN IF p # "Gemini" /\ ~io.flush_ok
          THEN Fail(cfg, ev)
          ELSE IF p # "Ollama" /\ IsNone(cfg[api_key_field(p)])
          THEN status_from_concurrent(cfg, step + 1, ev \o <<Out2("Not configured", p)>>, io)
          ELSE Await(cfg,
                     ev \o (IF step < Len(StatusOrder)
                            THEN <<RequestEv(StatusOrder[step + 1], "check_connection")>>
                            ELSE <<>>),
                     Frame("status", "app", <<>>, step, <<>>),
                     check_connection_request(p, cfg))

\* handle_status_command from the probe of StatusOrder[step] on
RECURSIVE status_from(_, _, _, _)
status_from(cfg, step, ev, io) ==
  IF step > Len(StatusOrder)
  THEN Done(cfg, ev)
  ELSE LET p == StatusOrder[step]
       IN IF p # "Gemini" /\ ~io.flush_ok
          THEN Fail(cfg, ev)
          ELSE IF p # "Ollama" /\ IsNone(cfg[api_key_field(p)])
          THEN status_from(cfg, step + 1, ev \o <<Out2("Not configured", p)>>, io)
          ELSE Await(cfg, ev, Frame("status", "app", <<>>, step, <<>>),
                     check_connection_request(p, cfg))

handle_status_command(cfg, io) ==
  status_from(cfg, 1, <<Out("Checking connection status...")>>, io)

\* a variant of status_resume that gives up the remaining probes when one fails
status_resume_stop_on_error(cfg, step, result, io) ==
  IF result.ok
  THEN status_from(cfg, step + 1, <<Out2("Connected", StatusOrder[step])>>, io)
  ELSE Done(cfg, <<Out2("Error", StatusOrder[step]), Out("---")>>)

\* handle_status_command when the probe of StatusOrder[step] has come back
status_resume(cfg, step, result, io) ==
  status_from(cfg, step + 1,
              <<IF result.ok THEN Out2("Connected", StatusOrder[step])
                ELSE Out2("Error", StatusOrder[step])>>, io)

\* whether the sequence models holds name
contains(models, name) == \E i \in 1..Len(models) : models[i] = name

\* a variant of model_set that keeps the old model when the listing lacks the name
model_set_verified(cfg, model_name, known_models) ==
  IF IsSome(known_models) /\ ~contains(Unwrap(known_models), model_name)
  THEN Done(cfg, <<Log("warn", "model not found via /model_list"),
                   Out("Warning: Model not verified.")>>)
  ELSE Done(set_provider_model(cfg, cfg.active_provider, model_name),
            <<Out("Set default model to")>>)

\* handle_model_command, lines 404-418: known_models is an Option of a listing
model_set(cfg, model_name, known_models) ==
  LET warning ==
        IF IsSome(known_models)
        THEN IF ~contains(Unwrap(known_models), model_name)
             THEN <<Log("warn", "model not found via /model_list"),
                    Out("Warning: Model not verified.")>>
             ELSE <<>>
        ELSE <<Log("warn", "Could not verify model existence.")>>
  IN Done(set_provider_model(cfg, cfg.active_provider, model_name),
          warning \o <<Out("Set default model to")>>)

\* the levels the tracing subscriber of main lets through to the terminal:
\* EnvFilter::from_default_env() admits errors alone when RUST_LOG is unset,
\* and warnings too when RUST_LOG says so
LogFilters == {"error", "warn"}

\* Result::ok
result_ok(result) == IF result.ok THEN Some(result.val) ELSE None

\* handle_model_command, lines 390-403
handle_model_command(cfg, args_str) ==
  LET p == cfg.active_provider
  IN IF args_str = <<>>
     THEN Done(cfg, <<Out("Current model"), Out("Usage: /model <name>")>>)
     ELSE IF p = "HuggingFace"
     THEN model_set(cfg, args_str, result_ok(Ok(<<>>)))
     ELSE IF key_missing(p, cfg)
     THEN model_set(cfg, args_str, result_ok(Err("Config", <<"API key not set">>)))
     ELSE Await(cfg, <<>>, Frame("model", "app", args_str, 0, <<>>), list_request(p, cfg))

\* the listing printed by handle_model_list_command and its per-provider helpers
show_listing(cfg, ev, result) ==
  IF result.ok
  THEN IF result.val = <<>>
       THEN Done(cfg, ev \o <<Out("No models found.")>>)
       ELSE Done(cfg, ev \o <<Out("Available models")>>)
  ELSE Done(cfg, ev \o <<Log("error", "Failed to list models"), ErrOut("Error fetching models")>>)

\* handle_model_list_command with handle_gemini_list_command,
\* handle_groq_list_command and handle_huggingface_list_command
handle_model_list_command(cfg) ==
  LET p == cfg.active_provider
  IN IF p # "Ollama" /\ IsNone(cfg[api_key_field(p)])
     THEN Done(cfg, <<Out("Error: API key not set.")>>)
     ELSE IF p = "HuggingFace"
     THEN Done(cfg, <<Out("Hugging Face model listing is not implemented yet.")>>)
     ELSE Await(cfg, <<Out("Fetching available models...")>>,
                Frame("model_list", "app", <<>>, 0, <<>>), list_request(p, cfg))

\* handle_select_model_command, lines 481-502, and the head of select_model
select_listed(cfg, ev, result, io) ==
  IF ~result.ok
  THEN Done(cfg, ev \o <<Log("error", "Failed to list models"), ErrOut("Error")>>)
  ELSE IF result.val = <<>>
  THEN Done(cfg, ev \o <<Out("No models found.")>>)
  ELSE IF ~io.flush_ok
  THEN Fail(cfg, ev \o <<Out("Available models"), Out("Enter number (or 0 to cancel): ")>>)
  ELSE Stdin(cfg, ev \o <<Out("Available models"), Out("Enter number (or 0 to cancel): ")>>,
             Frame("select_model", "app", <<>>, 0, result.val))

\* handle_select_model_command, lines 457-480
handle_select_model_command(cfg, args_str, io) ==
  LET p == cfg.active_provider
  IN IF args_str # <<>>
     THEN Done(cfg, <<Out("Usage: /select_model")>>)
     ELSE IF p = "HuggingFace"
     THEN select_listed(cfg, <<Out("Fetching available models...")>>, Ok(<<>>), io)
     ELSE IF key_missing(p, cfg)
     THEN select_listed(cfg, <<Out("Fetching available models...")>>,
                        Err("Config", <<"API key not set">>), io)
     ELSE Await(cfg, <<Out("Fetching available models...")>>,
                Frame("select_model", "app", <<>>, 0, <<>>), list_request(p, cfg))

\* a variant of select_model_read that takes the first model for any valid number
select_model_read_first(cfg, fr, rd, io) ==
  LET n == parse_usize(trim(rd.buf))
  IN IF ~rd.ok
     THEN Fail(cfg, <<StdinEv>>)
     ELSE IF n = Some(0)
     THEN Done(cfg, <<StdinEv, Out("Cancelled.")>>)
     ELSE IF IsSome(n) /\ Unwrap(n) > 0 /\ Unwrap(n) <= Len(fr.models)
     THEN Done(set_provider_model(cfg, cfg.active_provider, fr.models[1]),
               <<StdinEv, Out("Selected model")>>)
     ELSE IF ~io.flush_ok
     THEN Fail(cfg, <<StdinEv, Out("Invalid input. Try again."),
                      Out("Enter number (or 0 to cancel): ")>>)
     ELSE Stdin(cfg, <<StdinEv, Out("Invalid input. Try again."),
                       Out("Enter number (or 0 to cancel): ")>>,
                [fr EXCEPT !.step = @ + 1])

\* one turn of the loop of select_model, lines 729-744: rd is what read_line gave
select_model_read(cfg, fr, rd, io) ==
  LET n == parse_usize(trim(rd.buf))
  IN IF ~rd.ok
     THEN Fail(cfg, <<StdinEv>>)
     ELSE IF n = Some(0)
     THEN Done(cfg, <<StdinEv, Out("Cancelled.")>>)
     ELSE IF IsSome(n) /\ Unwrap(n) > 0 /\ Unwrap(n) <= Len(fr.models)
     THEN Done(set_provider_model(cfg, cfg.active_provider, fr.models[Unwrap(n)]),
               <<StdinEv, Out("Selected model")>>)
     ELSE IF ~io.flush_ok
     THEN Fail(cfg, <<StdinEv, Out("Invalid input. Try again."),
                      Out("Enter number (or 0 to cancel): ")>>)
     ELSE Stdin(cfg, <<StdinEv, Out("Invalid input. Try again."),
                       Out("Enter number (or 0 to cancel): ")>>,
                [fr EXCEPT !.step = @ + 1])

\* a variant of handle_app_command that matches the command name whatever its case
handle_app_command_any_case(cfg, input, io) ==
  LET parts == splitn2(Tail(input))
      typed == trim(parts[1])
      command == CASE typed = <<"HELP">> -> <<"help">>
                   [] typed = <<"QUIT">> -> <<"quit">>
                   [] OTHER -> typed
      args_str == IF Len(parts) > 1 THEN trim(parts[2]) ELSE <<>>
      args == split_whitespace(args_str)
  IN CASE command = <<"help">>               -> FromRan(print_help(cfg))
       [] command = <<"status">>             -> handle_status_command(cfg, io)
       [] command = <<"use">>                -> FromRan(handle_use_command(cfg, args))
       [] command = <<"model">>              -> handle_model_command(cfg, args_str)
       [] command = <<"model_list">>         -> handle_model_list_command(cfg)
       [] command = <<"select_model">>       -> handle_select_model_command(cfg, args_str, io)
       [] command = <<"gemini_config">>      -> FromRan(handle_gemini_config_command(cfg, args))
       [] command = <<"groq_config">>        -> FromRan(handle_groq_config_command(cfg, args))
       [] command = <<"huggingface_config">> -> FromRan(handle_huggingface_config_command(cfg, args))
       [] command = <<"config">>             -> FromRan(handle_config_command(cfg))
       [] command \in {<<"quit">>, <<"exit">>} -> Done(cfg, <<>>)
       [] OTHER                              -> Done(cfg, <<Out("Unknown command")>>)

\* handle_app_command
handle_app_command(cfg, input, io) ==
  LET parts == splitn2(Tail(input))
      command == trim(parts[1])
      args_str == IF Len(parts) > 1 THEN trim(parts[2]) ELSE <<>>
      args == split_whitespace(args_str)
  IN CASE command = <<"help">>               -> FromRan(print_help(cfg))
       [] command = <<"status">>             -> handle_status_command(cfg, io)
       [] command = <<"use">>                -> FromRan(handle_use_command(cfg, args))
       [] command = <<"model">>              -> handle_model_command(cfg, args_str)
       [] command = <<"model_list">>         -> handle_model_list_command(cfg)
       [] command = <<"select_model">>       -> handle_select_model_command(cfg, args_str, io)
       [] command = <<"gemini_config">>      -> FromRan(handle_gemini_config_command(cfg, args))
       [] command = <<"groq_config">>        -> FromRan(handle_groq_config_command(cfg, args))
       [] command = <<"huggingface_config">> -> FromRan(handle_huggingface_config_command(cfg, args))
       [] command = <<"config">>             -> FromRan(handle_config_command(cfg))
       [] command \in {<<"quit">>, <<"exit">>} -> Done(cfg, <<>>)
       [] OTHER                              -> Done(cfg, <<Out("Unknown command")>>)

\* a variant of loop_return that leaves the loop when the handler returned Err
loop_return_abort(kind, r) ==
  IF r.ret = "Err"
  THEN [r EXCEPT !.ev = @ \o <<Log("error", "command failed"), ErrOut2("Error executing", kind)>>,
                 !.pc = "Terminated"]
  ELSE r

\* run_interactive, lines 82-100: an Err a handler returns is printed, and the
\* loop goes on
loop_return(kind, r) ==
  IF r.ret = "Err"
  THEN [r EXCEPT !.ev = @ \o <<Log("error", "command failed"), ErrOut2("Error executing", kind)>>]
  ELSE r

\* the events ev, then the step r
After(ev, r) == [r EXCEPT !.ev = ev \o @]

ReadlineEv(k) == <<"readline", k>>

\* what rl.readline returns
ReadlineKinds == {"Ok", "Interrupted", "Eof", "Error"}

\* a variant of read_events that records blank lines too
read_events_unconditional(input) == <<ReadlineEv("Ok"), HistoryEv>>

\* run_interactive, lines 59-67: the line is read, and recorded when it is not blank
read_events(input) ==
  <<ReadlineEv("Ok")>> \o (IF input # <<>> THEN <<HistoryEv>> ELSE <<>>)

\* a variant of run_line that takes a lone `/` for a prompt
run_line_bare_slash_prompt(cfg, rl, io) ==
  IF rl.kind = "Interrupted"
  THEN Continue(cfg, <<ReadlineEv("Interrupted"), Out("^C")>>)
  ELSE IF rl.kind = "Eof"
  THEN Break(cfg, <<ReadlineEv("Eof"), Out("^D")>>)
  ELSE IF rl.kind = "Error"
  THEN Break(cfg, <<ReadlineEv("Error"), Log("error", "Readline error"), ErrOut("Input Error")>>)
  ELSE LET input == trim(rl.line)
           read == read_events(input)
       IN IF input = <<>>
          THEN Continue(cfg, read)
          ELSE IF is_exit_command(input)
          THEN Break(cfg, read)
          ELSE IF starts_with(input, "!")
          THEN After(read \o <<DispatchEv("shell")>>,
                     loop_return("shell", handle_shell_command(cfg, input, io)))
          ELSE IF starts_with(input, "/") /\ Len(input) > 1
          THEN After(read \o <<DispatchEv("app")>>,
                     loop_return("app", handle_app_command(cfg, input, io)))
          ELSE After(read \o <<DispatchEv("llm")>>,
                     loop_return("llm", handle_llm_prompt(cfg, input)))

\* run_interactive, lines 57-116: one turn of the loop, up to the first
\* suspension of the handler
run_line(cfg, rl, io) ==
  IF rl.kind = "Interrupted"
  THEN Continue(cfg, <<ReadlineEv("Interrupted"), Out("^C")>>)
  ELSE IF rl.kind = "Eof"
  THEN Break(cfg, <<ReadlineEv("Eof"), Out("^D")>>)
  ELSE IF rl.kind = "Error"
  THEN Break(cfg, <<ReadlineEv("Error"), Log("error", "Readline error"), ErrOut("Input Error")>>)
  ELSE LET input == trim(rl.line)
           read == read_events(input)
       IN IF input = <<>>
          THEN Continue(cfg, read)
          ELSE IF is_exit_command(input)
          THEN Break(cfg, read)
          ELSE IF starts_with(input, "!")
          THEN After(read \o <<DispatchEv("shell")>>,
                     loop_return("shell", handle_shell_command(cfg, input, io)))
          ELSE IF starts_with(input, "/")
          THEN After(read \o <<DispatchEv("app")>>,
                     loop_return("app", handle_app_command(cfg, input, io)))
          ELSE After(read \o <<DispatchEv("llm")>>,
                     loop_return("llm", handle_llm_prompt(cfg, input)))

\* a variant of llm_resume that sends the request once more when the call failed
llm_resume_retrying(cfg, fr, rq, net) ==
  LET result == generate_response(rq.provider, net)
  IN IF ~result.ok /\ fr.step = 0
     THEN Await(cfg, <<>>, [fr EXCEPT !.step = 1], rq)
     ELSE show_generation(cfg, <<>>, result)

\* handle_llm_prompt, lines 209-265, from the .await of generate on: whatever
\* generate returned is displayed, and the handler returns
llm_resume(cfg, fr, rq, net) ==
  show_generation(cfg, <<>>, generate_response(rq.provider, net))

\* the suspended handler goes on with the outcome net of its request rq
resume_response(cfg, fr, rq, net, io) ==
  loop_return(fr.kind,
    CASE fr.handler = "llm_prompt" ->
           llm_resume(cfg, fr, rq, net)
      [] fr.handler = "status" ->
           status_resume(cfg, fr.step, check_connection_response(rq.provider, net), io)
      [] fr.handler = "model" ->
           model_set(cfg, fr.arg, result_ok(list_response(rq.provider, net)))
      [] fr.handler = "model_list" ->
           show_listing(cfg, <<>>, list_response(rq.provider, net))
      [] fr.handler = "select_model" ->
           select_listed(cfg, <<>>, list_response(rq.provider, net), io))

\* the suspended select_model goes on with what read_line gave
resume_stdin(cfg, fr, rd, io) == loop_return(fr.kind, select_model_read(cfg, fr, rd, io))

-----------------------------------------------------------------------------
(* Inputs: the lines typed, the answers given to select_model, and what the *)
(* network brings back                                                      *)

\* the words tried as the value of a /gemini_config parameter
ValueWords == {"0", "0.5", "1", "1.5", "-1", "abc", "NaN", "reset"}

GeminiParams == {"temp", "top_p", "max_tokens"}

\* lines that are no command of the session state: blank lines, exits, shell
\* escapes, prompts, commands that only print
DispatchLines ==
  {<<>>, <<SP>>,
   <<"quit">>, <<"exit">>, <<"/", "quit">>, <<"/", "exit">>, <<SP, "/", "quit", SP>>,
   <<"/", "quit", SP, "now">>, <<"quit", SP, "now">>, <<"/", "QUIT">>,
   <<"!">>, <<"!", "ls">>, <<"!", SP, "ls">>,
   <<"hello">>, <<SP, "hello", SP, "world">>,
   <<"/">>, <<"/", SP, "help">>, <<"/", "help">>, <<"/", "HELP">>, <<"/", "frobnicate">>,
   <<"/", "status">>, <<"/", "config">>, <<"/", "model_list">>,
   <<"/", "groq_config">>, <<"/", "huggingface_config">>, <<"/", "gemini_config">>,
   <<"/", "use">>, <<"/", "model">>, <<"/", "select_model", SP, "m1">>}

\* lines that choose the provider and its model
ProviderLines ==
  {<<SP>>, <<SP, "hello", SP, "world">>, <<"/", "quit">>, <<"/", "status">>, <<"/", "model_list">>,
   <<"/", "use">>, <<"/", "use", SP, "ollama">>, <<"/", "use", SP, "OLLAMA">>,
   <<"/", "use", SP, "gemini">>, <<"/", "use", SP, "groq">>, <<"/", "use", SP, "huggingface">>,
   <<"/", "use", SP, "mistral">>, <<"/", "use", SP, "gemini", SP, "groq">>,
   <<"/", "model">>, <<"/", "model", SP, "m1">>, <<"/", "model", SP, SP, "m1", SP>>,
   <<"/", "select_model">>, <<"/", "select_model", SP, "m1">>}

\* lines that set the generation parameters
ParameterLines ==
  {<<>>, <<"hello">>, <<"exit">>, <<"/", "use", SP, "ollama">>, <<"/", "use", SP, "gemini">>,
   <<"/", "gemini_config">>, <<"/", "gemini_config", SP, "reset">>,
   <<"/", "gemini_config", SP, "temp">>,
   <<"/", "gemini_config", SP, "TEMP", SP, "1">>,
   <<"/", "gemini_config", SP, "temp", SP, "1", SP, "top_p", SP, "1.5">>,
   <<"/", "gemini_config", SP, "top_p", SP, "0", SP, "reset">>,
   <<"/", "gemini_config", SP, "reset", SP, "max_tokens", SP, "1">>}
  \cup {<<"/", "gemini_config", SP, param, SP, v>> : param \in GeminiParams, v \in ValueWords}

Surfaces == {"dispatch", "providers", "parameters"}

\* the lines the user of a session types
Vocabulary(s) ==
  CASE s = "dispatch"   -> DispatchLines
    [] s = "providers"  -> ProviderLines
    [] s = "parameters" -> ParameterLines


\* what read_line of select_model gives: a line, nothing (end of input), or an error
StdinReads ==
  {[ok |-> TRUE, buf |-> b] : b \in {<<>>, <<"0">>, <<"1">>, <<SP, "2">>, <<"3">>, <<"abc">>}}
  \cup {[ok |-> FALSE, buf |-> <<>>]}

\* the texts a provider answers with
T1 == <<"t1">>
T2 == <<"t2">>

\* the names a provider lists besides its default model
M1 == <<"m1">>

RECURSIVE SeqsUpTo(_, _)
SeqsUpTo(S, n) ==
  IF n = 0 THEN {<<>>}
  ELSE LET shorter == SeqsUpTo(S, n - 1)
       IN shorter \cup {Append(q, x) : q \in shorter, x \in S}

\* the listings a provider can answer with
Listings(cfg, p) == SeqsUpTo({M1, cfg[get_provider_model_name(p)]}, MaxListing)

GeminiApiErrorJson ==
  [code |-> Some("429"), message |-> Some("quota exceeded"), status |-> Some("RESOURCE_EXHAUSTED")]
GeminiTextJson(t, finish) ==
  [candidates     |-> Some(<<[content |-> Some([parts |-> Some(<<[text |-> Some(t)]>>)]),
                             finishReason |-> finish]>>),
   promptFeedback |-> None, error |-> None]
GeminiErrorJson == [candidates |-> None, promptFeedback |-> None, error |-> Some(GeminiApiErrorJson)]
GeminiListJson(names) ==
  [models |-> Some(seq_map(names, LAMBDA n :
                     [name |-> Some(<<"models/">> \o n),
                      supportedGenerationMethods |-> Some(<<"generateContent">>)])),
   error  |-> None]

OpenAiTextJson(t, finish) ==
  [choices |-> Some(<<[index |-> Some(0),
                      message |-> Some([role |-> Some("assistant"), content |-> Some(t)]),
                      finish_reason |-> finish]>>),
   error   |-> None]
OpenAiErrorJson == [choices |-> None, error |-> Some([message |-> Some("invalid api key")])]
OpenAiListJson(names) ==
  [object |-> Some("list"),
   data   |-> Some(seq_map(names, LAMBDA n : [id |-> Some(n), object |-> Some("model")])),
   error  |-> None]

OllamaTextJson(t) ==
  [model |-> Some(<<"llama3">>), created_at |-> Some("ts"), response |-> Some(t), done |-> Some(TRUE)]
OllamaErrorJson == [model |-> None, created_at |-> None, response |-> None, done |-> None]
OllamaTagsJson(names) ==
  [models |-> Some(seq_map(names, LAMBDA n :
                     [name |-> Some(n), modified_at |-> Some("ts"), size |-> Some(1)]))]

HuggingFaceTextJson(t) == [generated_text |-> Some(t), error |-> None]
HuggingFaceErrorJson == [generated_text |-> None, error |-> Some("model is loading")]

\* what the network brings back for the request rq in the session
SessionNets(cfg, rq) ==
  {NetFail} \cup
  (CASE rq.op = "list_models" \/ (rq.op = "check_connection" /\ rq.provider = "Gemini") ->
          {Resp("500", None)} \cup
          {Resp("200", Some(CASE rq.provider = "Ollama" -> OllamaTagsJson(l)
                              [] rq.provider = "Gemini" -> GeminiListJson(l)
                              [] rq.provider = "Groq"   -> OpenAiListJson(l)))
             : l \in Listings(cfg, rq.provider)}
     [] rq.op = "check_connection" /\ rq.provider \in {"Ollama", "Groq"} ->
          {Resp("200", None), Resp("500", None)}
     [] rq.provider = "Ollama" ->
          {Resp("200", Some(OllamaTextJson(T1))), Resp("404", Some(OllamaErrorJson))}
     [] rq.provider = "Gemini" ->
          {Resp("200", Some(GeminiTextJson(T1, Some("STOP")))),
           Resp("200", Some(GeminiTextJson(T1, Some("MAX_TOKENS")))),
           Resp("429", Some(GeminiErrorJson))}
     [] rq.provider = "Groq" ->
          {Resp("200", Some(OpenAiTextJson(T1, Some("stop")))),
           Resp("200", Some(OpenAiTextJson(T1, Some("length")))),
           Resp("401", Some(OpenAiErrorJson))}
     [] rq.provider = "HuggingFace" ->
          {Resp("200", Some(HuggingFaceTextJson(T1))), Resp("503", Some(HuggingFaceErrorJson))})

-----------------------------------------------------------------------------
(* The session: Config::load, then run_interactive *)

GenIdle == [phase |-> "idle", provider |-> "none", net |-> NetFail, result |-> Err("none", <<>>)]

Init ==
  /\ \E env \in Environments : config = ConfigLoad(env)
  /\ surface \in Surfaces
  /\ pc = "ReadingLine"
  /\ line = <<>>
  /\ frame = NoFrame
  /\ request = None
  /\ trace = <<>>
  /\ gen = GenIdle

\* the step r becomes the state
Take(r) ==
  /\ config' = r.cfg
  /\ pc' = r.pc
  /\ frame' = r.frame
  /\ UNCHANGED <<surface, gen>>

\* whether flushing stdout works during a step
FlushChoices == {[flush_ok |-> b, shell |-> "success"] : b \in BOOLEAN}

\* the environment choices that matter to the line: the rest take the default
IoFor(l) ==
  IF starts_with(trim(l), "!") THEN IoChoices
  ELSE IF trim(l) \in {<<"/", "status">>, <<"/", "select_model">>} THEN FlushChoices
  ELSE {IoDefault}

\* rl.readline returns, and the loop runs its turn up to the handler's first suspension
ReadLine ==
  /\ pc = "ReadingLine"
  /\ \E k \in ReadlineKinds :
       \E l \in IF k = "Ok" THEN Vocabulary(surface) ELSE {<<>>} :
         \E io \in IoFor(l) :
           LET r == run_line(config, [kind |-> k, line |-> l], io)
           IN /\ Take(r)
              /\ line' = l
              /\ request' = r.req
              /\ trace' = r.ev

\* the awaited request comes back, and the handler goes on
Respond ==
  /\ pc = "AwaitingResponse"
  /\ \E net \in SessionNets(config, Unwrap(request)) :
       \E io \in IF frame.handler \in {"status", "select_model"} THEN FlushChoices ELSE {IoDefault} :
         LET r == resume_response(config, frame, Unwrap(request), net, io)
         IN /\ Take(r)
            /\ line' = line
            /\ request' = IF IsSome(r.req) THEN r.req ELSE request
            /\ trace' = trace \o r.ev

\* the timeout the request set runs out: send() is Err
TimeOut ==
  /\ pc = "AwaitingResponse"
  /\ Unwrap(request).timeout # "none"
  /\ \E io \in FlushChoices :
       LET r == resume_response(config, frame, Unwrap(request), NetFail, io)
       IN /\ Take(r)
          /\ line' = line
          /\ request' = IF IsSome(r.req) THEN r.req ELSE request
          /\ trace' = trace \o r.ev

\* read_line of select_model returns
ReadStdin ==
  /\ pc = "ReadingStdin"
  /\ frame.step < MaxStdinReads
  /\ \E rd \in StdinReads :
       \E io \in FlushChoices :
         LET r == resume_stdin(config, frame, rd, io)
         IN /\ Take(r)
            /\ line' = line
            /\ request' = request
            /\ trace' = trace \o r.ev

\* the loop comes round: format_prompt, and rl.readline is called for the next
\* line; the record of the turn that ended is dropped
Reprompt ==
  /\ pc = "Rendering"
  /\ pc' = "ReadingLine"
  /\ line' = <<>>
  /\ request' = None
  /\ trace' = <<>>
  /\ UNCHANGED <<config, surface, frame, gen>>

Next == ReadLine \/ Respond \/ TimeOut \/ ReadStdin \/ Reprompt

Spec == Init /\ [][Next]_vars

\* The session with what its scheduling guarantees: a timeout a request set
\* runs out, and a handler that is back in the loop is followed by the next
\* prompt.  Nothing obliges the network to answer or the user to type.
SpecFair == Spec /\ WF_vars(TimeOut) /\ WF_vars(Reprompt)

-----------------------------------------------------------------------------
(* The provider clients on their own: generate or list_models of one client  *)
(* applied to one outcome of the HTTP exchange, or generate called with the  *)
(* Config that Config::load gave.  The session stands at its startup state.  *)

\* the bodies tried on Gemini's generate: each member there or not, the first
\* candidate with each finish reason and each shape of content
GeminiJsons ==
  LET PartsJsons ==
        {None, Some(<<>>), Some(<<[text |-> Some(T1)]>>),
         Some(<<[text |-> Some(T1)], [text |-> Some(T2)]>>), Some(<<[text |-> None]>>)}
      ContentJsons == {None} \cup {Some([parts |-> ps]) : ps \in PartsJsons}
      FinishReasons == {None, Some("STOP"), Some("UNKNOWN"), Some("MAX_TOKENS"), Some("SAFETY")}
      CandidateJsons ==
        {[content |-> c, finishReason |-> f] : c \in ContentJsons, f \in FinishReasons}
      Second ==
        [content |-> Some([parts |-> Some(<<[text |-> Some(T2)]>>)]), finishReason |-> Some("STOP")]
      CandidatesJsons ==
        {None, Some(<<>>)}
        \cup {Some(<<c>>) : c \in CandidateJsons}
        \cup {Some(<<c, Second>>) : c \in CandidateJsons}
  IN {[candidates |-> cs, promptFeedback |-> pf, error |-> e] :
        cs \in CandidatesJsons,
        pf \in {None, Some([blockReason |-> None]), Some([blockReason |-> Some("SAFETY")])},
        e \in {None, Some(GeminiApiErrorJson), Some([GeminiApiErrorJson EXCEPT !.message = None])}}

\* the bodies tried on the shared-schema generate
OpenAiJsons ==
  LET MessageJsons ==
        {None,
         Some([role |-> Some("assistant"), content |-> Some(T1)]),
         Some([role |-> Some("assistant"), content |-> None]),
         Some([role |-> None, content |-> Some(T1)])}
      FinishReasons == {None, Some("stop"), Some("length"), Some("content_filter")}
      ChoiceJsons ==
        {[index |-> i, message |-> m, finish_reason |-> f] :
           i \in {None, Some(0)}, m \in MessageJsons, f \in FinishReasons}
      Second ==
        [index |-> Some(1), message |-> Some([role |-> Some("assistant"), content |-> Some(T2)]),
         finish_reason |-> Some("stop")]
  IN {[choices |-> cs, error |-> e] :
        cs \in {None, Some(<<>>)}
               \cup {Some(<<c>>) : c \in ChoiceJsons}
               \cup {Some(<<c, Second>>) : c \in ChoiceJsons},
        e \in {None, Some([message |-> Some("invalid api key")]), Some([message |-> None])}}

OllamaJsons ==
  {[model |-> m, created_at |-> c, response |-> r, done |-> d] :
     m \in {None, Some(<<"llama3">>)}, c \in {None, Some("ts")},
     r \in {None, Some(T1)}, d \in {None, Some(TRUE), Some(FALSE)}}

HuggingFaceJsons ==
  {[generated_text |-> g, error |-> e] :
     g \in {None, Some(T1)}, e \in {None, Some("model is loading")}}

GenJsons(p) ==
  CASE p = "Ollama"      -> OllamaJsons
    [] p = "Gemini"      -> GeminiJsons
    [] p = "Groq"        -> OpenAiJsons
    [] p = "HuggingFace" -> HuggingFaceJsons

\* the outcomes of the exchange tried on the client of provider p
GenNets(p) ==
  {NetFail}
  \cup {RespOfLen(s, b, n) : s \in {"200", "500"}, b \in {None} \cup {Some(j) : j \in GenJsons(p)},
                             n \in {2, BodyPrefixLen, BodyPrefixLen + 1}}

\* the bodies tried on list_models of the client of provider p
ListJsons(p) ==
  CASE p = "Ollama" ->
         {[models |-> ms] :
            ms \in {None, Some(<<>>), Some(<<[name |-> Some(M1), modified_at |-> Some("ts"), size |-> Some(1)]>>),
                    Some(<<[name |-> Some(M1), modified_at |-> None, size |-> Some(1)]>>)}}
    [] p = "Gemini" ->
         {[models |-> ms, error |-> e] :
            ms \in {None, Some(<<>>)}
                   \cup {Some(<<[name |-> n, supportedGenerationMethods |-> g]>>) :
                           n \in {None, Some(<<"models/">> \o M1), Some(M1)},
                           g \in {None, Some(<<"generateContent">>), Some(<<"embedContent">>)}}
                   \cup {Some(<<[name |-> Some(<<"models/">> \o a), supportedGenerationMethods |-> g],
                                [name |-> Some(<<"models/">> \o b),
                                 supportedGenerationMethods |-> Some(<<"embedContent", "generateContent">>)]>>) :
                           a \in {M1}, b \in {<<"m2">>},
                           g \in {Some(<<"generateContent">>), Some(<<"embedContent">>)}},
            e \in {None, Some(GeminiApiErrorJson)}}
    [] p = "Groq" ->
         {[object |-> o, data |-> d, error |-> e] :
            o \in {None, Some("list")},
            d \in {None, Some(<<>>), Some(<<[id |-> Some(M1), object |-> Some("model")]>>),
                   Some(<<[id |-> None, object |-> Some("model")]>>)},
            e \in {None, Some([message |-> Some("invalid api key")]), Some([message |-> None])}}

\* the outcomes of the exchange tried on list_models of the client of provider p
ListNets(p) ==
  {NetFail}
  \cup {RespOfLen(s, b, n) : s \in {"200", "500"}, b \in {None} \cup {Some(j) : j \in ListJsons(p)},
                             n \in {2, BodyPrefixLen + 1}}

InitGen ==
  /\ \E env \in Environments : config = ConfigLoad(env)
  /\ surface = "dispatch"
  /\ pc = "ReadingLine"
  /\ line = <<>>
  /\ frame = NoFrame
  /\ request = None
  /\ trace = <<>>
  /\ \/ \E p \in LlmProvider :
          \E net \in GenNets(p) :
            /\ config = ConfigDefault
            /\ gen = [phase |-> "received", provider |-> p, net |-> net, result |-> Err("none", <<>>)]
     \/ \E p \in LlmProvider \ {"HuggingFace"} :
          \E net \in ListNets(p) :
            /\ config = ConfigDefault
            /\ gen = [phase |-> "list_received", provider |-> p, net |-> net, result |-> Err("none", <<>>)]
     \/ \E p \in LlmProvider :
          gen = [phase |-> "called", provider |-> p, net |-> NetFail, result |-> Err("none", <<>>)]

\* generate goes from the outcome of the exchange to its Result
GenClassify ==
  /\ gen.phase = "received"
  /\ gen' = [gen EXCEPT !.phase = "classified",
                        !.result = generate_response(gen.provider, gen.net)]
  /\ UNCHANGED <<config, surface, pc, line, frame, request, trace>>

\* list_models goes from the outcome of the exchange to its Result
GenList ==
  /\ gen.phase = "list_received"
  /\ gen' = [gen EXCEPT !.phase = "listed",
                        !.result = list_response(gen.provider, gen.net)]
  /\ UNCHANGED <<config, surface, pc, line, frame, request, trace>>

\* generate of the client of gen.provider is called with the Config as it is
\* and the prompt T1: it returns at its key check or hands over its request
GenCall ==
  /\ gen.phase = "called"
  /\ LET r == generate_call(gen.provider, config, T1)
     IN /\ gen' = [gen EXCEPT !.phase = "invoked", !.result = r.result]
        /\ request' = r.req
  /\ UNCHANGED <<config, surface, pc, line, frame, trace>>

\* handle_model_command goes on with the listing it awaited: /model m1, the
\* provider of the listing being the active one
GenModelSet ==
  /\ gen.phase = "listed"
  /\ LET r == model_set([config EXCEPT !.active_provider = gen.provider], M1, result_ok(gen.result))
     IN /\ config' = r.cfg
        /\ trace' = r.ev
  /\ gen' = [gen EXCEPT !.phase = "model_set"]
  /\ UNCHANGED <<surface, pc, line, frame, request>>

NextGen == GenClassify \/ GenList \/ GenCall \/ GenModelSet

SpecGen == InitGen /\ [][NextGen]_vars

-----------------------------------------------------------------------------
(* The loop of select_model on its own: the handler waits in read_line with *)
(* the listing it printed, and stdin is open or has come to its end          *)

\* stdin of the process: gen.phase tells whether it has come to its end
StdinAt(ph) == [GenIdle EXCEPT !.phase = ph]

\* what read_line gives at the end of input: Ok(0), and the buffer stays empty
StdinEnd == [ok |-> TRUE, buf |-> <<>>]

\* select_model has printed the listing of the active provider and waits
InitStdin ==
  /\ \E env \in Environments :
       \E p \in {q \in LlmProvider \ {"HuggingFace"} : ~key_missing(q, ConfigLoad(env))} :
         /\ config = [ConfigLoad(env) EXCEPT !.active_provider = p]
         /\ \E models \in Listings(config, p) \ {<<>>} :
              frame = Frame("select_model", "app", <<>>, 0, models)
  /\ surface = "providers"
  /\ pc = "ReadingStdin"
  /\ line = <<"/", "select_model">>
  /\ request = None
  /\ trace = <<>>
  /\ gen = StdinAt("open")

\* one turn of the loop, read_line giving rd: trace holds what the turn
\* printed, and the turns are counted modulo 2 (the loop keeps no count; a
\* turn that prompts again is a step of its own, not a stuttering one)
StdinTurn(rd) ==
  \E io \in FlushChoices :
    LET r == resume_stdin(config, frame, rd, io)
    IN /\ config' = r.cfg
       /\ pc' = r.pc
       /\ frame' = [r.frame EXCEPT !.step = @ % 2]
       /\ trace' = r.ev
       /\ UNCHANGED <<surface, line, request>>

\* the user answers, or ends the input
StdinAnswer ==
  /\ pc = "ReadingStdin"
  /\ gen = StdinAt("open")
  /\ \E rd \in StdinReads :
       /\ StdinTurn(rd)
       /\ gen' = IF rd = StdinEnd THEN StdinAt("eof") ELSE gen

\* read_line on a stdin that has ended returns at once, again with nothing
StdinEof ==
  /\ pc = "ReadingStdin"
  /\ gen = StdinAt("eof")
  /\ StdinTurn(StdinEnd)
  /\ gen' = gen

NextStdin == StdinAnswer \/ StdinEof

\* read_line never blocks on a stdin that has ended
SpecStdin == InitStdin /\ [][NextStdin]_vars /\ WF_vars(StdinEof)

-----------------------------------------------------------------------------
(* Properties.  What a property says of a turn it reads off `line` and       *)
(* `trace`; what a step changes it reads off the primed variables.           *)

\* the trace holds the event e
HasEv(tr, e) == \E i \in 1..Len(tr) : tr[i] = e

\* rl.readline gave a line in the turn whose trace is tr
ReadOk(tr) == tr # <<>> /\ tr[1] = ReadlineEv("Ok")

\* the turn whose trace is tr took a branch of the dispatch
Dispatched(tr) == \E i \in 1..Len(tr) : tr[i][1] = "dispatch"

\* the key a hosted provider needs
KeyOf(cfg, p) ==
  CASE p = "Gemini"      -> cfg.gemini_api_key
    [] p = "Groq"        -> cfg.groq_api_key
    [] p = "HuggingFace" -> cfg.huggingface_api_key

\* the field that holds the model of provider p
ModelFieldOf(p) ==
  CASE p = "Ollama"      -> "default_ollama_model"
    [] p = "Gemini"      -> "default_gemini_model"
    [] p = "Groq"        -> "default_groq_model"
    [] p = "HuggingFace" -> "default_huggingface_model"

UseLine(w) == <<"/", "use", SP, w>>

\* the provider a /use argument names
HostedNamed(w) ==
  CASE w = "gemini"      -> "Gemini"
    [] w = "groq"        -> "Groq"
    [] w = "huggingface" -> "HuggingFace"

ActiveProviderUsable(cfg) ==
  /\ cfg.active_provider \in LlmProvider
  /\ cfg.active_provider # "Ollama" => IsSome(KeyOf(cfg, cfg.active_provider))

C1_Step ==
  /\ ActiveProviderUsable(config)
  /\ ActiveProviderUsable(config')
  /\ \A w \in {"gemini", "groq", "huggingface"} :
       (pc = "ReadingLine" /\ ReadOk(trace') /\ line' = UseLine(w)
          /\ IsNone(KeyOf(config, HostedNamed(w))))
       => (config' = config /\ pc' = "Rendering")
  /\ (pc = "ReadingLine" /\ ReadOk(trace') /\ line' \in {UseLine("ollama"), UseLine("OLLAMA")})
       => (config'.active_provider = "Ollama" /\ pc' = "Rendering")

\* C1: the active provider is always one provider, Ollama or a hosted one whose
\* key is present; /use of a hosted provider whose key is absent changes
\* nothing; /use ollama always makes Ollama the active provider
C1_ActiveProviderUsable == [][C1_Step]_vars

\* /use groq was refused for want of the key while Gemini was active
C1_Witness ==
  /\ pc = "Rendering"
  /\ line = UseLine("groq")
  /\ IsNone(config.groq_api_key)
  /\ config.active_provider = "Gemini"
  /\ HasEv(trace, Out("Error: GROQ_API_KEY not set."))

\* C2: the generation parameters, when present, are in range: temperature and
\* top_p in [0.0, 1.0] (0..10 tenths), max_tokens positive
C2_ParametersInRange ==
  /\ IsSome(config.gemini_temperature) => Unwrap(config.gemini_temperature) \in 0..10
  /\ IsSome(config.gemini_top_p) => Unwrap(config.gemini_top_p) \in 0..10
  /\ IsSome(config.gemini_max_tokens) => Unwrap(config.gemini_max_tokens) > 0

\* every parameter has been set to an end of its range
C2_Witness ==
  /\ config.gemini_temperature = Some(10)
  /\ config.gemini_top_p = Some(0)
  /\ config.gemini_max_tokens = Some(1)

GeminiConfigLine(param, v) == <<"/", "gemini_config", SP, param, SP, v>>

\* the value words /gemini_config must reject for a parameter: out of range,
\* or no number of the parameter's type (NaN parses as a float and is in no range)
RejectedWords(param) ==
  IF param = "max_tokens"
  THEN {"0", "0.5", "1.5", "-1", "abc", "NaN"}
  ELSE {"1.5", "-1", "abc", "NaN"}

RejectionOf(param) ==
  {Out2("Invalid range", param), Out2("Invalid value", param)}

C3_Step ==
  \A param \in GeminiParams :
    \A v \in RejectedWords(param) :
      (pc = "ReadingLine" /\ ReadOk(trace') /\ line' = GeminiConfigLine(param, v))
      => /\ config' = config
         /\ pc' = "Rendering"
         /\ \E e \in RejectionOf(param) : HasEv(trace', e)

\* C3: /gemini_config <param> <value> with a value out of range or not a
\* number is rejected with a message and leaves the Config as it was
C3_RejectedValueChangesNothing == [][C3_Step]_vars

\* temp 1.5 was rejected, and the temperature set before is still there
C3_Witness ==
  /\ pc = "Rendering"
  /\ line = GeminiConfigLine("temp", "1.5")
  /\ HasEv(trace, Out2("Invalid range", "temp"))
  /\ config.gemini_temperature = Some(10)

\* the lines that are /model m1
ModelLines == {<<"/", "model", SP, "m1">>, <<"/", "model", SP, SP, "m1", SP>>}

C4_Step ==
  line' \in ModelLines =>
    /\ \A f \in DOMAIN config :
         f # ModelFieldOf(config.active_provider) => config'[f] = config[f]
    /\ pc' = "Rendering" => config'[ModelFieldOf(config.active_provider)] = M1
    /\ pc' \in {"Rendering", "AwaitingResponse"}

\* C4: /model <name> ends with the active provider's model equal to the name,
\* whatever the listing says, and no step of its turn changes another field
C4_ModelSetUnconditionally == [][C4_Step]_vars

\* the listing came and lacks m1: the warning was given and the model is m1
C4_Witness ==
  /\ pc = "Rendering"
  /\ line \in ModelLines
  /\ config.active_provider = "Groq"
  /\ HasEv(trace, Out("Warning: Model not verified."))
  /\ config.default_groq_model = M1
  /\ config.default_ollama_model = ConfigDefault.default_ollama_model

\* the lines whose last word is the lone `reset`
ResetLines ==
  {<<"/", "gemini_config", SP, "reset">>,
   <<"/", "gemini_config", SP, "top_p", SP, "0", SP, "reset">>}

\* C5: after /gemini_config reset the three parameters are the built-in
\* defaults: temperature 0.7, top_p absent, max_tokens 2048
C5_ResetGivesDefaults ==
  (pc = "Rendering" /\ line \in ResetLines)
  => /\ config.gemini_temperature = Some(7)
     /\ config.gemini_top_p = None
     /\ config.gemini_max_tokens = Some(2048)

\* top_p was set and then everything reset in one line, after the
\* temperature and max_tokens had been changed
C5_Witness ==
  /\ pc = "Rendering"
  /\ line = <<"/", "gemini_config", SP, "top_p", SP, "0", SP, "reset">>
  /\ HasEv(trace, Out2("Set", "top_p"))
  /\ HasEv(trace, Out("Reset all Gemini parameters"))
  /\ config.gemini_top_p = None
  /\ config.active_provider = "Gemini"

ExitLines == {<<"quit">>, <<"exit">>, <<"/", "quit">>, <<"/", "exit">>}

C6_Step ==
  /\ pc' = "Terminated" =>
       /\ pc = "ReadingLine"
       /\ \/ trace'[1] \in {ReadlineEv("Eof"), ReadlineEv("Error")}
          \/ (ReadOk(trace') /\ trim(line') \in ExitLines)
  /\ Dispatched(trace') => pc' # "Terminated"
  /\ pc = "Rendering" => pc' = "ReadingLine"

\* C6: the loop ends only on quit/exit, on end of input or on a failure of
\* readline; a turn that dispatched a handler never ends the loop, and once
\* the handler is back the loop reads the next line
C6_TerminatesOnlyOnExitOrInputEnd == [][C6_Step]_vars

\* a handler returned Err, the loop printed it and goes on
C6_Witness ==
  /\ pc = "Rendering"
  /\ HasEv(trace, DispatchEv("app"))
  /\ HasEv(trace, ErrOut2("Error executing", "app"))

\* the line is not blank and begins with neither marker
PlainLine(l) == trim(l) # <<>> /\ Head(trim(l)) \notin {"!", "/"}

\* the turn went to handle_llm_prompt, and the prompt to generate of the active provider
PromptGenerated ==
  /\ HasEv(trace, DispatchEv("llm"))
  /\ HasEv(trace, RequestEv(config.active_provider, "generate"))

\* C7 as stated: every non-blank line that begins with neither ! nor / is a
\* prompt and goes to generate of the active provider
C7_EveryPlainLineIsPrompt ==
  (ReadOk(trace) /\ PlainLine(line)) => PromptGenerated

\* C7: every non-blank line that begins with neither ! nor / and is not the
\* word quit or exit is a prompt and goes to generate of the active provider;
\* the words quit and exit end the session and reach no handler
C7_PlainLineIsPromptUnlessExitWord ==
  (ReadOk(trace) /\ PlainLine(line))
  => IF trim(line) \in {<<"quit">>, <<"exit">>}
     THEN pc = "Terminated" /\ ~Dispatched(trace) /\ request = None
     ELSE PromptGenerated

\* a line of two words went to Gemini's generate
C7_Witness ==
  /\ line = <<SP, "hello", SP, "world">>
  /\ pc = "AwaitingResponse"
  /\ config.active_provider = "Gemini"
  /\ PromptGenerated
  /\ Unwrap(request).op = "generate"

\* in tr, the line is recorded before any branch of the dispatch is taken
HistoryBeforeDispatch(tr) ==
  \A j \in 1..Len(tr) :
    tr[j][1] = "dispatch" => \E i \in 1..(j - 1) : tr[i] = HistoryEv

C8_Step ==
  /\ (pc = "ReadingLine" /\ ReadOk(trace') /\ trim(line') = <<>>)
     => /\ trace' = <<ReadlineEv("Ok")>>
        /\ config' = config
        /\ request' = None
        /\ frame' = NoFrame
        /\ pc' = "ReadingLine"
  /\ (ReadOk(trace') /\ trim(line') # <<>>) => HasEv(trace', HistoryEv)
  /\ HistoryBeforeDispatch(trace')

\* C8: a blank line is not recorded, reaches no handler, makes no request,
\* changes nothing, and the loop reads the next line; a line that is not
\* blank is recorded before it is dispatched
C8_BlankLineDiscarded == [][C8_Step]_vars

\* a line of one space was read and dropped, after the provider had been changed
C8_Witness ==
  /\ pc = "ReadingLine"
  /\ line = <<SP>>
  /\ trace = <<ReadlineEv("Ok")>>
  /\ config.active_provider = "Gemini"

\* generate got a response it could parse
GenParsed ==
  /\ gen.phase = "classified"
  /\ gen.net.arrived
  /\ IsSome(gen.net.body)
  /\ CASE gen.provider = "Ollama"      -> ollama_response_valid(Unwrap(gen.net.body))
       [] gen.provider = "Gemini"      -> gemini_response_valid(Unwrap(gen.net.body))
       [] gen.provider = "Groq"        -> openai_chat_valid(Unwrap(gen.net.body))
       [] gen.provider = "HuggingFace" -> huggingface_response_valid(Unwrap(gen.net.body))

\* the finish reason of the first candidate or choice of the body j: None
\* when there is none (the Ollama and Hugging Face bodies have no such member)
FirstFinishReason(p, j) ==
  CASE p = "Gemini" ->
         IF IsSome(j.candidates) /\ Unwrap(j.candidates) # <<>>
         THEN Head(Unwrap(j.candidates)).finishReason ELSE None
    [] p = "Groq" ->
         IF IsSome(j.choices) /\ Unwrap(j.choices) # <<>>
         THEN Head(Unwrap(j.choices)).finish_reason ELSE None
    [] OTHER -> None

\* the finish reasons that are no failure: the normal stop and the sentinel
NormalFinish(p) == IF p = "Gemini" THEN {"STOP", "UNKNOWN"} ELSE {"stop", "UNKNOWN"}

\* C9: generate never returns success for a parsed response whose first
\* candidate or choice has a finish reason other than the normal stop and
\* the unknown sentinel
C9_AbnormalFinishIsNeverSuccess ==
  GenParsed =>
    LET fin == FirstFinishReason(gen.provider, Unwrap(gen.net.body))
    IN (IsSome(fin) /\ Unwrap(fin) \notin NormalFinish(gen.provider)) => ~gen.result.ok

\* C10: Gemini's generate takes the first that applies of: the error member,
\* the blocked prompt, no candidates, an abnormal finish reason of the first
\* candidate, no content, no parts, empty parts; and gives the text of the
\* first part only when none applies
C10_GeminiPriorityOrder ==
  (GenParsed /\ gen.provider = "Gemini") =>
    LET j == Unwrap(gen.net.body)
        res == gen.result
        HasError == IsSome(j.error)
        Blocked == IsSome(j.promptFeedback) /\ IsSome(Unwrap(j.promptFeedback).blockReason)
        NoCandidates == IsNone(j.candidates) \/ Unwrap(j.candidates) = <<>>
        first == Head(Unwrap(j.candidates))
        Abnormal == IsSome(first.finishReason)
                      /\ Unwrap(first.finishReason) \notin {"STOP", "UNKNOWN"}
        NoContent == IsNone(first.content)
        NoParts == IsNone(Unwrap(first.content).parts)
        EmptyParts == Unwrap(Unwrap(first.content).parts) = <<>>
        Fails(k) == ~res.ok /\ res.kind = k
    IN IF HasError
       THEN /\ Fails("ApiError")
            /\ res.detail = <<Unwrap(Unwrap(j.error).code), Unwrap(Unwrap(j.error).status),
                              Unwrap(Unwrap(j.error).message)>>
       ELSE IF Blocked THEN Fails("PromptBlocked")
       ELSE IF NoCandidates THEN Fails("NoCandidates")
       ELSE IF Abnormal THEN Fails("FinishedEarly")
       ELSE IF NoContent THEN Fails("ContentMissing")
       ELSE IF NoParts THEN Fails("PartsMissing")
       ELSE IF EmptyParts THEN Fails("PartsEmpty")
       ELSE res.ok /\ res.val = Unwrap(Head(Unwrap(Unwrap(first.content).parts)).text)

\* a response with usable text in its first candidate, a blocked prompt and
\* the error member: the outcome is the API error
C10_Witness ==
  /\ GenParsed
  /\ gen.provider = "Gemini"
  /\ gen.net.body = Some([candidates |-> Some(<<[content |-> Some([parts |-> Some(<<[text |-> Some(T1)]>>)]),
                                                 finishReason |-> Some("STOP")]>>),
                          promptFeedback |-> Some([blockReason |-> Some("SAFETY")]),
                          error |-> Some(GeminiApiErrorJson)])
  /\ gen.result.kind = "ApiError"

\* the texts of the parts ps, one after the other
RECURSIVE PartsText(_)
PartsText(ps) == IF ps = <<>> THEN <<>> ELSE Unwrap(Head(ps).text) \o PartsText(Tail(ps))

\* the body j of provider p is a success envelope: no error member, no
\* blocked prompt, a first candidate or choice that stopped normally and has text
SuccessEnvelope(p, j) ==
  CASE p = "Ollama" -> TRUE
    [] p = "Gemini" ->
         /\ IsNone(j.error)
         /\ ~(IsSome(j.promptFeedback) /\ IsSome(Unwrap(j.promptFeedback).blockReason))
         /\ IsSome(j.candidates) /\ Unwrap(j.candidates) # <<>>
         /\ Head(Unwrap(j.candidates)).finishReason \in {None, Some("STOP")}
         /\ IsSome(Head(Unwrap(j.candidates)).content)
         /\ IsSome(Unwrap(Head(Unwrap(j.candidates)).content).parts)
         /\ Unwrap(Unwrap(Head(Unwrap(j.candidates)).content).parts) # <<>>
    [] p = "Groq" ->
         /\ IsNone(j.error)
         /\ Unwrap(j.choices) # <<>>
         /\ Head(Unwrap(j.choices)).finish_reason \in {None, Some("stop")}
         /\ IsSome(Unwrap(Head(Unwrap(j.choices)).message).content)
    [] p = "HuggingFace" -> IsNone(j.error) /\ IsSome(j.generated_text)

\* the text the first candidate or choice of the success envelope j carries
FirstText(p, j) ==
  CASE p = "Ollama"      -> Unwrap(j.response)
    [] p = "Gemini"      -> PartsText(Unwrap(Unwrap(Head(Unwrap(j.candidates)).content).parts))
    [] p = "Groq"        -> Unwrap(Unwrap(Head(Unwrap(j.choices)).message).content)
    [] p = "HuggingFace" -> Unwrap(j.generated_text)

\* C11: on a success envelope (status 200, parsed, no error or soft-failure
\* signal) generate returns exactly the text of the first candidate or
\* choice, whole, and nothing of a later one
C11_FirstTextVerbatim ==
  (GenParsed /\ gen.net.status = "200" /\ SuccessEnvelope(gen.provider, Unwrap(gen.net.body)))
  => (gen.result.ok /\ gen.result.val = FirstText(gen.provider, Unwrap(gen.net.body)))


\* generate got a response it could not parse into the provider's schema
GenUnparsed == gen.phase = "classified" /\ gen.net.arrived /\ ~GenParsed

\* C12: a response body that does not parse into the provider's schema yields
\* an error (never a success) that carries the HTTP status and a prefix of the
\* raw body of bounded length
C12_ParseErrorBoundedBody ==
  GenUnparsed =>
    /\ ~gen.result.ok
    /\ gen.result.kind = "Parse"
    /\ gen.result.detail[1] = gen.net.status
    /\ gen.result.detail[3] <= gen.net.len
    /\ gen.result.detail[3] <= BodyPrefixLen


\* the body j is a well-formed error envelope of the shared schema:
\* {error: {message, ...}}, whatever else it holds
OpenAiErrorEnvelope(j) == IsSome(j.error) /\ IsSome(Unwrap(j.error).message)

\* C13: the shared-schema (Groq) client classifies a well-formed error
\* envelope {error: {message}}, with or without `choices` (generate) or
\* `data` (list_models), as a provider API error carrying the provider's own
\* message, not as a parse error
C13_ErrorEnvelopeIsApiError ==
  (/\ gen.phase \in {"classified", "listed"}
   /\ gen.provider = "Groq"
   /\ gen.net.arrived
   /\ IsSome(gen.net.body)
   /\ OpenAiErrorEnvelope(Unwrap(gen.net.body)))
  => (/\ ~gen.result.ok
      /\ gen.result.kind = "ApiError"
      /\ gen.result.detail = <<Unwrap(Unwrap(Unwrap(gen.net.body).error).message)>>)


\* generate of the client of a hosted provider was called while the Config
\* holds no API key for that provider
CalledWithoutKey ==
  /\ gen.phase = "invoked"
  /\ gen.provider \in {"Gemini", "Groq", "HuggingFace"}
  /\ IsNone(config[api_key_field(gen.provider)])

\* C14: generate of a hosted provider's client, called while that provider's
\* API key is absent, returns a configuration error and issues no request
C14_NoKeyNoRequest ==
  CalledWithoutKey =>
    (~gen.result.ok /\ gen.result.kind = "Config" /\ request = None)

C14_Witness ==
  /\ CalledWithoutKey
  /\ gen.provider = "Groq"
  /\ gen.result.kind = "Config"


\* the requests handed to the HTTP client in the turn whose trace is tr
Requests(tr) == {i \in 1..Len(tr) : tr[i][1] = "request"}

\* C15: handling one free-text prompt issues at most one request, to generate
\* of the active provider, and exactly one when the provider's key
\* requirement is met, however the call ends: no call is issued again
C15_OneRequestPerPrompt ==
  HasEv(trace, DispatchEv("llm")) =>
    /\ Cardinality(Requests(trace)) <= 1
    /\ \A i \in Requests(trace) : trace[i] = RequestEv(config.active_provider, "generate")
    /\ ~key_missing(config.active_provider, config) => Cardinality(Requests(trace)) = 1

C15_Witness ==
  /\ pc = "Rendering"
  /\ HasEv(trace, DispatchEv("llm"))
  /\ config.active_provider = "Groq"
  /\ HasEv(trace, Log("error", "Generation error"))
  /\ Cardinality(Requests(trace)) = 1


\* the lines read and the dispatches made in the turn whose trace is tr
ReadsAndDispatches(tr) == {i \in 1..Len(tr) : tr[i][1] \in {"readline", "dispatch"}}

\* a step of the session, as C16 sees it: it hands at most one request to the
\* HTTP client, a call is pending after it exactly when it handed one over,
\* and a step taken while a call is pending is the return of that call, which
\* reads no line and dispatches none
C16_Step ==
  LET added == Cardinality(Requests(trace')) - Cardinality(Requests(trace))
  IN /\ added <= 1
     /\ (pc' = "AwaitingResponse") <=> (added = 1)
     /\ pc' = "AwaitingResponse" =>
          (IsSome(request') /\ trace'[Len(trace')] = RequestEv(Unwrap(request').provider, Unwrap(request').op))
     /\ pc = "AwaitingResponse" =>
          /\ line' = line
          /\ Cardinality(ReadsAndDispatches(trace')) = Cardinality(ReadsAndDispatches(trace))
          /\ Len(trace') >= Len(trace)
          /\ SubSeq(trace', 1, Len(trace)) = trace

\* C16: at most one provider call is in flight at any time, and no input line
\* is read or dispatched while a call of the current command is pending, the
\* probes of /status included
C16_OneCallInFlight == [][C16_Step]_vars

C16_Witness ==
  /\ pc = "AwaitingResponse"
  /\ frame.handler = "status"
  /\ frame.step = 3
  /\ Cardinality(Requests(trace)) = 3


\* the texts the payload of the generate request rq carries, in order
PromptTexts(rq) ==
  LET body == Unwrap(rq.payload)
  IN CASE rq.provider = "Ollama"      -> <<body.prompt>>
       [] rq.provider = "Gemini"      ->
            IF \A i \in 1..Len(body.contents) : Len(body.contents[i].parts) = 1
            THEN [i \in 1..Len(body.contents) |-> body.contents[i].parts[1].text]
            ELSE <<>>
       [] rq.provider = "Groq"        -> [i \in 1..Len(body.messages) |-> body.messages[i].content]
       [] rq.provider = "HuggingFace" -> <<body.inputs>>

\* C17: the request sent for a free-text prompt is a function of the input
\* line and the session state alone, whatever was sent and received before:
\* it goes to the active provider with that provider's model, address and
\* key, and carries exactly one text, the line, as the one user message
C17_RequestFromLineAndState ==
  (HasEv(trace, DispatchEv("llm")) /\ pc = "AwaitingResponse") =>
    LET rq == Unwrap(request)
        p == config.active_provider
    IN /\ IsSome(request)
       /\ rq.provider = p /\ rq.op = "generate"
       /\ rq.model = get_active_model_name(config)
       /\ rq.auth = (IF p = "Ollama" THEN None ELSE config[api_key_field(p)])
       /\ p = "Ollama" => rq.base_url = config.ollama_base_url
       /\ p = "Groq" => rq.base_url = config.groq_api_base_url
       /\ PromptTexts(rq) = <<trim(line)>>
       /\ p = "Groq" => Unwrap(rq.payload).messages[1].role = "user"
       /\ p = "Gemini" =>
            Unwrap(rq.payload).generationConfig =
              (IF IsNone(config.gemini_temperature) /\ IsNone(config.gemini_top_p)
                    /\ IsNone(config.gemini_max_tokens)
               THEN None
               ELSE Some([temperature |-> config.gemini_temperature, topP |-> config.gemini_top_p,
                          maxOutputTokens |-> config.gemini_max_tokens]))

C17_Witness ==
  /\ HasEv(trace, DispatchEv("llm"))
  /\ pc = "AwaitingResponse"
  /\ config.active_provider = "Groq"
  /\ Unwrap(Unwrap(request).payload).messages = <<[role |-> "user", content |-> <<"hello", SP, "world">>]>>


\* a step of the session, as C18 sees it: /use of a hosted provider whose key
\* is absent leaves the active provider as it was, and the handler returns
\* Err to the loop, which reports it as a failed command
C18_Step ==
  \A w \in {"gemini", "groq", "huggingface"} :
    (pc = "ReadingLine" /\ ReadOk(trace') /\ line' = UseLine(w)
       /\ IsNone(KeyOf(config, HostedNamed(w))))
    => /\ config'.active_provider = config.active_provider
       /\ HasEv(trace', ErrOut2("Error executing", "app"))

\* C18: the switch-provider handler, invoked with a hosted provider whose API
\* key is absent, returns a configuration error (a rejection, not a success)
\* to its caller and leaves the active provider unchanged
C18_UseWithoutKeyReturnsError == [][C18_Step]_vars


\* the words of /use that name a provider, and the provider each names
UseWords == {"ollama", "OLLAMA", "gemini", "groq", "huggingface"}
UseTarget(w) ==
  CASE w \in {"ollama", "OLLAMA"} -> "Ollama"
    [] OTHER -> HostedNamed(w)

\* a step of the session, as C19 sees it: /use <provider> leaves every field
\* but the active provider as it was, and a /use that succeeds makes the
\* provider it names the active one
C19_Step ==
  \A w \in UseWords :
    (pc = "ReadingLine" /\ ReadOk(trace') /\ line' = UseLine(w)) =>
      /\ \A f \in DOMAIN config \ {"active_provider"} : config'[f] = config[f]
      /\ (UseTarget(w) = "Ollama" \/ IsSome(KeyOf(config, UseTarget(w))))
           => config'.active_provider = UseTarget(w)

\* C19: a successful /use <provider> changes the active provider and nothing
\* else: every model name, base URL, API key and generation parameter keeps
\* its value, so a provider switched away from and back to has the model and
\* the parameters set for it before
C19_UseChangesOnlyActiveProvider == [][C19_Step]_vars

\* Groq was given the model m1, left for Ollama and come back to
C19_Witness ==
  /\ pc = "Rendering"
  /\ line = UseLine("groq")
  /\ HasEv(trace, Out("Switched to Groq"))
  /\ config.active_provider = "Groq"
  /\ config.default_groq_model = M1


\* the turn whose trace is tr showed a warning that the model is not
\* verified, the log filter being f: a line printed, or a warning logged
\* that the filter lets through
WarnedNotVerified(tr, f) ==
  \/ HasEv(tr, Out("Warning: Model not verified."))
  \/ (f = "warn" /\ \E i \in 1..Len(tr) : tr[i][1] = "log" /\ tr[i][2] = "warn")

\* the listing that /model awaited came and holds the name
ListingConfirms(result, name) == result.ok /\ contains(result.val, name)

\* C20: /model <name> shows a not-verified warning whenever the provider's
\* listing does not confirm the name, be it fetched and without the name or
\* not fetched at all, and shows none when the fetched listing holds the name
C20_WarningUnlessConfirmed ==
  gen.phase = "model_set" =>
    \A f \in LogFilters :
      WarnedNotVerified(trace, f) <=> ~ListingConfirms(gen.result, M1)


\* /status awaits the probe of a provider
StatusProbing == pc = "AwaitingResponse" /\ frame.handler = "status"

\* C21: the connection check of every provider sets a bounded timeout on its
\* request, so that /status, once it awaits a probe, comes to its end and the
\* loop gets back to reading a line, whether or not the endpoint ever answers
C21_StatusCompletes ==
  /\ [](StatusProbing => Unwrap(request).timeout # "none")
  /\ (StatusProbing ~> (pc \in {"Rendering", "ReadingLine"}))


\* slash lines whose command name is none of the known names
UnknownCommandLines ==
  {<<"/">>, <<"/", SP, "help">>, <<"/", "HELP">>, <<"/", "frobnicate">>, <<"/", "QUIT">>}

\* a step of the session, as C22 sees it
C22_Step ==
  (pc = "ReadingLine" /\ ReadOk(trace') /\ line' \in UnknownCommandLines) =>
    /\ HasEv(trace', DispatchEv("app"))
    /\ HasEv(trace', Out("Unknown command"))
    /\ config' = config
    /\ Requests(trace') = {} /\ request' = None
    /\ ~HasEv(trace', ErrOut2("Error executing", "app"))
    /\ pc' = "Rendering"

\* C22: a slash command whose name is not one of the known names, matched
\* with its case, prints the unknown-command message, leaves the Config as
\* it was, makes no provider call, returns no error, and the loop goes on to
\* read the next line
C22_UnknownCommand == [][C22_Step]_vars

C22_Witness ==
  /\ pc = "Rendering"
  /\ line = <<"/", "HELP">>
  /\ HasEv(trace, Out("Unknown command"))


\* the turn whose trace is tr sent a prompt to generate of a provider
SentAsPrompt(tr) ==
  \/ HasEv(tr, DispatchEv("llm"))
  \/ \E i \in Requests(tr) : tr[i][3] = "generate"

\* C23: the trimmed line is classified by its first character, first match
\* first: a line that begins with `!` is handled as a shell escape and a line
\* that begins with `/` as a slash command (/quit and /exit, the loop's own,
\* end the session); neither is ever sent to a provider as a prompt
C23_MarkerLinesNeverPrompts ==
  (ReadOk(trace) /\ trim(line) # <<>>) =>
    /\ Head(trim(line)) = "!" =>
         (HasEv(trace, DispatchEv("shell")) /\ ~HasEv(trace, DispatchEv("app"))
            /\ ~SentAsPrompt(trace) /\ Requests(trace) = {})
    /\ Head(trim(line)) = "/" =>
         /\ ~SentAsPrompt(trace) /\ ~HasEv(trace, DispatchEv("shell"))
         /\ IF trim(line) \in {<<"/", "quit">>, <<"/", "exit">>}
            THEN pc = "Terminated"
            ELSE HasEv(trace, DispatchEv("app"))

C23_Witness ==
  /\ pc = "Rendering"
  /\ line = <<"!", SP, "ls">>
  /\ HasEv(trace, DispatchEv("shell"))
  /\ HasEv(trace, Out("Executing"))


\* the listing a Gemini body announces: its models that support
\* generateContent, in the body's order, each name without its `models/`
HasGenerateContent(m) ==
  /\ IsSome(m.supportedGenerationMethods)
  /\ \E i \in 1..Len(Unwrap(m.supportedGenerationMethods)) :
       Unwrap(m.supportedGenerationMethods)[i] = "generateContent"
WithoutModelsPrefix(name) ==
  IF name # <<>> /\ Head(name) = "models/" THEN Tail(name) ELSE name
RECURSIVE CapableModelIds(_)
CapableModelIds(ms) ==
  IF ms = <<>> THEN <<>>
  ELSE (IF HasGenerateContent(Head(ms)) THEN <<WithoutModelsPrefix(Unwrap(Head(ms).name))>> ELSE <<>>)
         \o CapableModelIds(Tail(ms))

GeminiListed ==
  /\ gen.phase = "listed" /\ gen.provider = "Gemini"
  /\ gen.result.ok
  /\ IsSome(gen.net.body) /\ IsSome(Unwrap(gen.net.body).models)

\* C24: Gemini list_models returns, in the order of the provider's listing,
\* exactly the models that support generateContent, each without its
\* `models/` prefix: every capable model is in the result and no other is
C24_ExactlyCapableModels ==
  GeminiListed => gen.result.val = CapableModelIds(Unwrap(Unwrap(gen.net.body).models))


\* the turn in hand is a /status command, and its probes of provider p
StatusTurn == HasEv(trace, Out("Checking connection status..."))
Probes(p) == {i \in Requests(trace) : trace[i][2] = p}
Keyless(p) == p # "Ollama" /\ IsNone(config[api_key_field(p)])
\* /status has printed all its lines: no write to stdout failed on the way
StatusReported ==
  /\ StatusTurn /\ pc = "Rendering"
  /\ ~HasEv(trace, ErrOut2("Error executing", "app"))

\* C25: /status sends nothing to a hosted provider whose API key is absent
\* and reports it as not configured; it probes Ollama whatever the keys are
\* and each hosted provider that has a key once, and a probe that fails is
\* followed by the probes of the providers after it
C25_StatusProbes ==
  /\ StatusTurn =>
       /\ \A i \in Requests(trace) : trace[i][3] = "check_connection"
       /\ \A p \in LlmProvider :
            /\ Cardinality(Probes(p)) <= 1
            /\ Keyless(p) => Probes(p) = {}
  /\ StatusReported =>
       \A p \in LlmProvider :
         IF Keyless(p)
         THEN HasEv(trace, Out2("Not configured", p))
         ELSE /\ Cardinality(Probes(p)) = 1
              /\ HasEv(trace, Out2("Connected", p)) \/ HasEv(trace, Out2("Error", p))

C25_Witness ==
  /\ StatusReported
  /\ HasEv(trace, Out2("Error", "Ollama"))
  /\ HasEv(trace, Out2("Not configured", "Gemini"))
  /\ HasEv(trace, Out2("Error", "Groq"))
  /\ HasEv(trace, Out2("Connected", "HuggingFace"))
  /\ Cardinality(Requests(trace)) = 3


\* the name given on a /model line
ModelArg(l) == trim(SubSeq(l, 3, Len(l)))
\* event e is printed by the step
Printed(e) == HasEv(trace', e) /\ ~HasEv(trace, e)

\* a step of the session, as C26 sees it
C26_Step ==
  LET active == config.active_provider
  IN /\ \A p \in LlmProvider :
          config'[get_provider_model_name(p)] # config[get_provider_model_name(p)] =>
            /\ p = active
            /\ Printed(Out("Set default model to")) \/ Printed(Out("Selected model"))
     /\ Printed(Out("Set default model to")) =>
          config'[get_provider_model_name(active)] = ModelArg(line')
     /\ Printed(Out("Selected model")) =>
          \E i \in 1..Len(frame.models) :
            config'[get_provider_model_name(active)] = frame.models[i]
     /\ (pc = "ReadingLine" /\ HasEv(trace', DispatchEv("llm")) /\ pc' = "AwaitingResponse") =>
          /\ Unwrap(request').op = "generate"
          /\ Unwrap(request').provider = active
          /\ Unwrap(request').model = config[get_provider_model_name(active)]
          /\ config' = config

\* C26: a free-text prompt goes to the provider that is active when its line
\* is dispatched, under that provider's model of the moment: every provider
\* starts with its built-in default, and a provider's model changes only
\* while it is the active one, to the name /model was given or to the entry
\* chosen in /select_model; what is set for one provider leaves the others'
C26_PromptUsesActiveModel ==
  /\ \A p \in LlmProvider :
       config[get_provider_model_name(p)] = ConfigDefault[get_provider_model_name(p)]
  /\ [][C26_Step]_vars

C26_Witness ==
  /\ pc = "AwaitingResponse" /\ HasEv(trace, DispatchEv("llm"))
  /\ config.active_provider = "Ollama"
  /\ Unwrap(request).model = <<"llama3">>
  /\ config.default_huggingface_model = M1
  /\ config.default_groq_model = M1


\* Gemini's generate came as far as the finish reason of the first candidate
GeminiAtFinishReason ==
  /\ GenParsed /\ gen.provider = "Gemini"
  /\ IsNone(Unwrap(gen.net.body).error)
  /\ ~(IsSome(Unwrap(gen.net.body).promptFeedback)
         /\ IsSome(Unwrap(Unwrap(gen.net.body).promptFeedback).blockReason))
  /\ IsSome(Unwrap(gen.net.body).candidates) /\ Unwrap(Unwrap(gen.net.body).candidates) # <<>>

\* the response gen.net with the finish reason of its first candidate put to STOP
WithStop ==
  LET j == Unwrap(gen.net.body)
      cs == Unwrap(j.candidates)
  IN [gen.net EXCEPT !.body =
        Some([j EXCEPT !.candidates = Some([cs EXCEPT ![1].finishReason = Some("STOP")])])]

\* C27: in Gemini's generate a first candidate without a finish reason, or
\* with the finish reason UNKNOWN, is handled as one that stopped normally:
\* the call succeeds with the text of the first part when content, parts and
\* that text are there; any other finish reason than STOP is an error
C27_UnknownFinishIsStop ==
  GeminiAtFinishReason =>
    LET c == Head(Unwrap(Unwrap(gen.net.body).candidates))
        f == c.finishReason
    IN IF f \in {None, Some("UNKNOWN")}
       THEN /\ gen.result = gemini_generate_response(WithStop)
            /\ (IsSome(c.content) /\ IsSome(Unwrap(c.content).parts)
                  /\ Unwrap(Unwrap(c.content).parts) # <<>>) =>
                 /\ gen.result.ok
                 /\ gen.result.val = Unwrap(Head(Unwrap(Unwrap(c.content).parts)).text)
       ELSE f # Some("STOP") => (~gen.result.ok /\ gen.result.kind = "FinishedEarly")

C27_Witness ==
  /\ GeminiAtFinishReason
  /\ Head(Unwrap(Unwrap(gen.net.body).candidates)).finishReason = Some("UNKNOWN")
  /\ gen.result = Ok(T1)


\* the line is a /gemini_config command
IsGeminiConfigLine(l) == Len(l) >= 2 /\ l[1] = "/" /\ l[2] = "gemini_config"
\* a value of the line was rejected: out of range, or no number
SomePairRejected(tr) ==
  \E param \in GeminiParams : \E e \in RejectionOf(param) : HasEv(tr, e)

C28_Step ==
  (pc = "ReadingLine" /\ ReadOk(trace') /\ IsGeminiConfigLine(line') /\ SomePairRejected(trace'))
  => config' = config

\* C28: a /gemini_config line with several parameter/value pairs of which at
\* least one value is out of range or malformed is rejected as a whole: none
\* of its pairs is applied, and the Config is as it was before the command
C28_RejectedLineAppliesNothing == [][C28_Step]_vars


\* the name of the slash command on the line l: what follows the `/` up to
\* the first blank ("" on a line that is no slash command)
SlashCommandName(l) ==
  IF Len(trim(l)) >= 2 /\ trim(l)[1] = "/" THEN trim(l)[2] ELSE ""

C29_Step ==
  (pc = "ReadingLine" /\ ReadOk(trace') /\ SlashCommandName(line') \in {"quit", "exit"})
  => pc' = "Terminated"

\* C29: a line whose slash-command name is quit or exit ends the session,
\* also when the name is followed by arguments, as in `/quit now`
C29_QuitWithArgumentsTerminates == [][C29_Step]_vars


\* select_model waits for a number on a stdin that has come to its end
WaitingAtEnd == pc = "ReadingStdin" /\ gen = StdinAt("eof")

\* C30: when stdin comes to its end while /select_model waits for the
\* number, the loop of select_model ends, the command finishing or the
\* session terminating: it does not print its prompt again for ever, and
\* /select_model gives control back to the loop of the session
C30_SelectModelEndsAtEof == WaitingAtEnd ~> (pc # "ReadingStdin")


\* a prompt is on its way to Gemini's generate
GeminiGenerating ==
  /\ pc = "AwaitingResponse" /\ IsSome(request)
  /\ Unwrap(request).provider = "Gemini" /\ Unwrap(request).op = "generate"

\* the generation parameters of the Config that are present, under the names
\* the request gives them
PresentParameters ==
  {k \in {"temperature", "topP", "maxOutputTokens"} :
     IsSome(config[CASE k = "temperature" -> "gemini_temperature"
                     [] k = "topP" -> "gemini_top_p"
                     [] k = "maxOutputTokens" -> "gemini_max_tokens"])}

\* C31: the body of a Gemini generate request has a generationConfig member
\* exactly when one of temperature, top-p and max-tokens is present in the
\* Config, and that object holds exactly the present parameters, each with
\* the value the Config has for it: an absent one is left out
C31_GenerationConfigAsPresent ==
  GeminiGenerating =>
    LET body == gemini_request_to_json(Unwrap(Unwrap(request).payload))
    IN /\ ("generationConfig" \in DOMAIN body) <=> (PresentParameters # {})
       /\ "generationConfig" \in DOMAIN body =>
            /\ DOMAIN body.generationConfig = PresentParameters
            /\ "temperature" \in PresentParameters =>
                 body.generationConfig.temperature = Unwrap(config.gemini_temperature)
            /\ "topP" \in PresentParameters =>
                 body.generationConfig.topP = Unwrap(config.gemini_top_p)
            /\ "maxOutputTokens" \in PresentParameters =>
                 body.generationConfig.maxOutputTokens = Unwrap(config.gemini_max_tokens)

\* top-p is absent and left out; the temperature set by the user is sent
C31_Witness ==
  /\ GeminiGenerating
  /\ config.gemini_top_p = None
  /\ config.gemini_temperature = Some(10)
  /\ DOMAIN gemini_request_to_json(Unwrap(Unwrap(request).payload)).generationConfig
       = {"temperature", "maxOutputTokens"}


\* the fields of the Config the step writes a new value to
Changed == {f \in DOMAIN config : config'[f] # config[f]}

GeminiParameterFields == {"gemini_temperature", "gemini_top_p", "gemini_max_tokens"}
StartupFields ==
  {"gemini_api_key", "groq_api_key", "huggingface_api_key", "ollama_base_url", "groq_api_base_url"}

\* a step of the session, as C32 sees it: what it changes is the write set of
\* the command of its turn, and a turn of no such command changes nothing
C32_Step ==
  LET command == SlashCommandName(line')
      model_field == get_provider_model_name(config.active_provider)
  IN /\ Changed # {} =>
          \/ command = "use" /\ Changed = {"active_provider"}
                /\ \E w \in {"ollama", "gemini", "groq", "huggingface"} :
                     to_lowercase(ModelArg(line')[1]) = w
          \/ command = "model" /\ ModelArg(line') # <<>> /\ Changed = {model_field}
          \/ command = "select_model" /\ ModelArg(line') = <<>> /\ Changed = {model_field}
                /\ Printed(Out("Selected model"))
          \/ command = "gemini_config" /\ Changed \subseteq GeminiParameterFields
                /\ \E param \in GeminiParams :
                     Printed(Out2("Set", param)) \/ Printed(Out2("Reset", param))
                       \/ Printed(Out("Reset all Gemini parameters"))
     /\ Changed \cap StartupFields = {}
     /\ command \notin {"use", "model", "select_model", "gemini_config"} => config' = config

EnteredNumber(rd) ==
  LET word == trim(rd.buf)
  IN IF Len(word) = 1 /\ word[1] \in {"0", "1", "2", "3"}
     THEN CASE word[1] = "0" -> 0 [] word[1] = "1" -> 1 [] word[1] = "2" -> 2 [] word[1] = "3" -> 3
     ELSE -1

\* the turn in hand is of a /select_model line
SelectModelTurn(l) == SlashCommandName(l) = "select_model"

\* what select_model makes of any entry, where it waits for one
C33_Entries ==
  (pc = "ReadingStdin" /\ SelectModelTurn(line)) =>
    \A rd \in StdinReads : \A io \in FlushChoices :
      LET r == resume_stdin(config, frame, rd, io)
          n == EnteredNumber(rd)
          model_field == get_provider_model_name(config.active_provider)
      IN IF rd.ok /\ n >= 1 /\ n <= Len(frame.models)
         THEN /\ r.cfg = [config EXCEPT ![model_field] = frame.models[n]]
              /\ r.pc = "Rendering"
         ELSE /\ r.cfg = config
              /\ ~HasEv(r.ev, Out("Selected model"))
              /\ (rd.ok /\ n = 0) => (r.pc = "Rendering" /\ HasEv(r.ev, Out("Cancelled.")))

\* a step of a /select_model turn: only the answer to the prompt changes the
\* Config, and the listing it chooses from is the one the command fetched
C33_Step ==
  SelectModelTurn(line') =>
    /\ pc # "ReadingStdin" => config' = config
    /\ pc' = "ReadingStdin" =>
         /\ ModelArg(line') = <<>>
         /\ frame'.models # <<>>
         /\ pc = "ReadingStdin" => frame'.models = frame.models
         /\ pc # "ReadingStdin" =>
              (pc = "AwaitingResponse" /\ Unwrap(request).op = "list_models"
                 /\ Unwrap(request).provider = config.active_provider
                 /\ frame'.models \in Listings(config, config.active_provider))
    /\ config' # config =>
         /\ Printed(Out("Selected model"))
         /\ \E n \in 1..Len(frame.models) :
              config' = [config EXCEPT ![get_provider_model_name(config.active_provider)] =
                                          frame.models[n]]

\* C33: /select_model leaves the model of the active provider as it was or
\* sets it to the n-th entry of the listing the same command fetched, n in
\* 1..len being the number entered; 0, an argument to the command, an empty
\* listing and a failed listing leave the model as it was, and a number
\* above len or an entry that is no number is never taken for a choice
C33_SelectsListedEntry == [](C33_Entries) /\ [][C33_Step]_vars

\* an entry of the listing was chosen for Groq: its model is no longer the default
C33_Witness ==
  /\ pc = "Rendering" /\ SelectModelTurn(line)
  /\ HasEv(trace, Out("Selected model"))
  /\ config.active_provider = "Groq"
  /\ config.default_groq_model = M1


\* the field of the Config a parameter name of /gemini_config stands for
ParameterField(param) ==
  CASE param = "temp" -> "gemini_temperature"
    [] param = "top_p" -> "gemini_top_p"
    [] param = "max_tokens" -> "gemini_max_tokens"

C34_Step ==
  \A param \in GeminiParams :
    (pc = "ReadingLine" /\ ReadOk(trace') /\ line' = GeminiConfigLine(param, "reset"))
    => /\ config' = [config EXCEPT ![ParameterField(param)] = ConfigDefault[ParameterField(param)]]
       /\ HasEv(trace', Out2("Reset", param))
       /\ pc' = "Rendering"

\* C34: /gemini_config <param> reset, for temp, top_p and max_tokens, puts
\* that parameter back to its built-in default and changes nothing else:
\* the other two parameters and the rest of the Config stay as they were
C34_ResetOfOneParameter == [][C34_Step]_vars

\* the temperature is back at its default; top_p and max_tokens keep what the
\* user gave them
C34_Witness ==
  /\ pc = "Rendering" /\ line = GeminiConfigLine("temp", "reset")
  /\ config.gemini_temperature = ConfigDefault.gemini_temperature
  /\ config.gemini_top_p = Some(5)
  /\ config.gemini_max_tokens = Some(1)


\* C35: generate of every provider client returns a text only for a response
\* whose HTTP status is a success (2xx) status: a response of another status
\* is never a success, whatever its body parses to
C35_SuccessOnlyOn2xx ==
  (gen.phase = "classified" /\ gen.result.ok) => (gen.net.arrived /\ is_success(gen.net.status))

====
